---- MODULE Spec2Model ----
(***************************************************************************)
(* Verification model of the confidential-transaction core of idia-core:   *)
(* Pedersen commitments, range proofs, stealth addresses, ring signatures, *)
(* transactions, the transaction builder and the wallet's block processing.*)
(*                                                                         *)
(* Group elements are modelled in a generic group of order Q with three    *)
(* generators of unknown mutual discrete logarithm: a point is the triple  *)
(* <<b, h, g>> of its coefficients on RISTRETTO_BASEPOINT_POINT, on the    *)
(* "Idia_H" generator of pedersen.rs and on the blinding generator of      *)
(* bulletproofs' PedersenGens::default().  Scalars are the integers mod Q. *)
(* Rust vectors are TLA+ sequences: Rust index i is TLA+ index i + 1.      *)
(***************************************************************************)
EXTENDS Integers, Sequences, FiniteSets, TLC

\* Order of the scalar field / group in the model.
Q == 3

\* Largest ring handed to RingSignature::sign in the model.
MaxRing == 3

\* Largest ring when two signatures are made one after the other.
MaxLinkRing == 2

\* Most inputs and most outputs of a transaction received for verification.
MaxTxInputs == 2

MaxTxOutputs == 2

\* Most outputs the wallet holds when it builds a transaction.
MaxOwned == 2

\* Most transactions of a block.
MaxBlockTxs == 2

\* Most blocks handed to Wallet::process_block.
MaxBlocks == 3

Scalars == 0 .. (Q - 1)

NonZeroScalars == 1 .. (Q - 1)

ScalarAdd(a, b) == (a + b) % Q

ScalarSub(a, b) == (((a - b) % Q) + Q) % Q

ScalarMulS(a, b) == (a * b) % Q

Points == Scalars \X Scalars \X Scalars

Identity == <<0, 0, 0>>

RISTRETTO_BASEPOINT_POINT == <<1, 0, 0>>

RISTRETTO_H == <<0, 1, 0>>

BP_B_BLINDING == <<0, 0, 1>>

PointAdd(p, q) == <<(p[1] + q[1]) % Q, (p[2] + q[2]) % Q, (p[3] + q[3]) % Q>>

PointMul(p, s) == <<(p[1] * s) % Q, (p[2] * s) % Q, (p[3] * s) % Q>>

PointNeg(p) == PointMul(p, Q - 1)

Ok(v) == [ok |-> TRUE, value |-> v]

Err(kind) == [ok |-> FALSE, error |-> kind]

\* CompressedRistretto: the canonical byte encoding of a point, as a number.
Compress(p) == p[1] + Q * p[2] + Q * Q * p[3]

\* decompress(): None for byte strings that encode no point.
Decompress(bytes) ==
    IF bytes \in 0 .. (Q * Q * Q - 1)
    THEN Ok(<<bytes % Q, (bytes \div Q) % Q, (bytes \div (Q * Q)) % Q>>)
    ELSE Err("None")

(***************************************************************************)
(* Merlin transcript.  The state is the sequence of everything absorbed so *)
(* far (domain tag, labelled messages, challenge requests); a challenge is *)
(* a digest of that whole history.  The digest is a positional fold in     *)
(* which the last absorbed item enters with coefficient one, so that for a *)
(* fixed history two different messages, or the same message under two     *)
(* different labels, give different challenges.                            *)
(***************************************************************************)
LabelCode(label) ==
    CASE label = "dom-sep" -> 0
      [] label = "L" -> 1
      [] label = "point" -> 2
      [] label = "c" -> 3

TranscriptNew(tag) == << <<"dom-sep", tag>> >>

AppendMessage(t, label, bytes) == Append(t, <<label, bytes>>)

RECURSIVE TranscriptDigest(_)
TranscriptDigest(t) ==
    IF t = <<>> THEN 0
    ELSE (LabelCode(t[Len(t)][1]) + t[Len(t)][2]
            + 2 * TranscriptDigest(SubSeq(t, 1, Len(t) - 1))) % Q

\* challenge_bytes(label, dest): the bytes drawn and the advanced transcript.
ChallengeBytes(t, label) ==
    LET bytes == (TranscriptDigest(t) + LabelCode(label)) % Q
    IN  [bytes |-> bytes, transcript |-> Append(t, <<label, bytes>>)]

FromBytesModOrder(bytes) == bytes % Q

\* Transcript::new(b"idia-ring-signature")
RingTag == 1


(***************************************************************************)
(* RingSignature::sign.  alpha and randoms are the scalars the function    *)
(* draws from OsRng: alpha first, then one per iteration of the loop.      *)
(***************************************************************************)
\* One iteration (loop variable i) of "Complete the ring".
SignStep(st, i, public_keys, real_index, randoms) ==
    LET n == Len(public_keys)
        idx == (real_index + i) % n
        random == randoms[i]
        r1 == [st.r EXCEPT ![idx + 1] = <<random>>]
        point == PointAdd(PointMul(RISTRETTO_BASEPOINT_POINT, random),
                          PointMul(public_keys[idx + 1], st.c[idx + 1]))
        t1 == AppendMessage(st.transcript, "point", Compress(point))
        ch == ChallengeBytes(t1, "c")
    IN  IF idx # real_index
        THEN [c |-> [st.c EXCEPT ![((idx + 1) % n) + 1] = FromBytesModOrder(ch.bytes)],
              r |-> r1, transcript |-> ch.transcript]
        ELSE [c |-> st.c, r |-> r1, transcript |-> t1]

RECURSIVE SignLoop(_, _, _, _, _)
SignLoop(st, i, public_keys, real_index, randoms) ==
    IF i >= Len(public_keys) THEN st
    ELSE SignLoop(SignStep(st, i, public_keys, real_index, randoms),
                  i + 1, public_keys, real_index, randoms)

Sign(secret_key, key_image, public_keys, real_index, alpha, randoms) ==
    IF real_index >= Len(public_keys) THEN Err("InvalidKey")
    ELSE
      LET n == Len(public_keys)
          t0 == TranscriptNew(RingTag)
          L == PointMul(RISTRETTO_BASEPOINT_POINT, alpha)
          t1 == AppendMessage(t0, "L", Compress(L))
          ch == ChallengeBytes(t1, "c")
          st0 == [c |-> [[k \in 1 .. n |-> 0] EXCEPT
                            ![((real_index + 1) % n) + 1] = FromBytesModOrder(ch.bytes)],
                  r |-> [k \in 1 .. n |-> <<0>>],
                  transcript |-> ch.transcript]
          st == SignLoop(st0, 1, public_keys, real_index, randoms)
          closed == [st.r EXCEPT ![real_index + 1] =
                        <<ScalarSub(alpha, ScalarMulS(st.c[real_index + 1], secret_key))>>]
      IN  Ok([c |-> st.c, r |-> closed, key_image |-> key_image])

(***************************************************************************)
(* RingSignature::verify.  Indexing r[i][0] on an empty r[i] aborts.       *)
(***************************************************************************)
RECURSIVE VerifyLoop(_, _, _, _)
VerifyLoop(sig, public_keys, i, transcript) ==
    LET n == Len(public_keys) IN
    IF i >= n THEN "true"
    ELSE IF Len(sig.r[i + 1]) = 0 THEN "panic"
    ELSE
      LET point == PointAdd(PointMul(RISTRETTO_BASEPOINT_POINT, sig.r[i + 1][1]),
                            PointMul(public_keys[i + 1], sig.c[i + 1]))
          t1 == AppendMessage(transcript, "point", Compress(point))
          ch == ChallengeBytes(t1, "c")
          expected_c == FromBytesModOrder(ch.bytes)
      IN  IF expected_c # sig.c[((i + 1) % n) + 1] THEN "false"
          ELSE VerifyLoop(sig, public_keys, i + 1, ch.transcript)

\* verify with the loop "for i in 0..public_keys.len() - 1": the link that
\* closes the ring, from the last position back to c[0], is not checked.
RECURSIVE VerifyLoopOpen(_, _, _, _)
VerifyLoopOpen(sig, public_keys, i, transcript) ==
    LET n == Len(public_keys) IN
    IF i >= n - 1 THEN "true"
    ELSE IF Len(sig.r[i + 1]) = 0 THEN "panic"
    ELSE
      LET point == PointAdd(PointMul(RISTRETTO_BASEPOINT_POINT, sig.r[i + 1][1]),
                            PointMul(public_keys[i + 1], sig.c[i + 1]))
          t1 == AppendMessage(transcript, "point", Compress(point))
          ch == ChallengeBytes(t1, "c")
          expected_c == FromBytesModOrder(ch.bytes)
      IN  IF expected_c # sig.c[((i + 1) % n) + 1] THEN "false"
          ELSE VerifyLoopOpen(sig, public_keys, i + 1, ch.transcript)

VerifyOpenRing(sig, public_keys) ==
    IF Len(public_keys) # Len(sig.c) \/ Len(public_keys) # Len(sig.r)
    THEN "SignatureVerification"
    ELSE VerifyLoopOpen(sig, public_keys, 0, TranscriptNew(RingTag))

Verify(sig, public_keys) ==
    IF Len(public_keys) # Len(sig.c) \/ Len(public_keys) # Len(sig.r)
    THEN "SignatureVerification"
    ELSE VerifyLoop(sig, public_keys, 0, TranscriptNew(RingTag))


(***************************************************************************)
(* Pedersen commitments (pedersen.rs).  Amounts are u64 in the program and *)
(* far below the group order, so the model keeps amounts below Q.          *)
(***************************************************************************)
ScalarFromU64(value) == value % Q

\* with_blinding that leaves the value term out: blinding * H alone.
WithBlindingValueDropped(value, blinding) ==
    Compress(PointMul(RISTRETTO_H, blinding))

WithBlinding(value, blinding) ==
    Compress(PointAdd(PointMul(RISTRETTO_BASEPOINT_POINT, ScalarFromU64(value)),
                      PointMul(RISTRETTO_H, blinding)))

CommitmentVerify(commitment, value, blinding) ==
    commitment = WithBlinding(value, blinding)

\* add that returns the left operand: other is decompressed and forgotten.
CommitmentAddLeftOnly(c1, c2) ==
    IF ~Decompress(c1).ok \/ ~Decompress(c2).ok
    THEN Err("InvalidCommitment")
    ELSE Ok(c1)

CommitmentAdd(c1, c2) ==
    IF ~Decompress(c1).ok \/ ~Decompress(c2).ok
    THEN Err("InvalidCommitment")
    ELSE Ok(Compress(PointAdd(Decompress(c1).value, Decompress(c2).value)))

(***************************************************************************)
(* Range proofs (bulletproof.rs).  The bulletproofs library is modelled by *)
(* its contract: a proof made by prove_single over the generators pc_gens  *)
(* is bound to V = value * pc_gens.B + blinding * pc_gens.B_blinding, and  *)
(* verify_single accepts a commitment exactly when it is that V and the    *)
(* value has at most the stated number of bits.                            *)
(***************************************************************************)
\* "bits in range" passed to prove_single / verify_single, scaled down.
RangeBits == 1

RangeLimit == 2 ^ RangeBits

\* PedersenGens::default().commit(value, blinding)
PcGensCommit(value, blinding) ==
    PointAdd(PointMul(RISTRETTO_BASEPOINT_POINT, ScalarFromU64(value)),
             PointMul(BP_B_BLINDING, blinding))

ProveSingle(value, blinding) ==
    Ok([V |-> Compress(PcGensCommit(value, blinding)),
        sound |-> value < RangeLimit])

VerifySingle(proof, V) ==
    IF proof.sound /\ proof.V = Compress(V) THEN Ok(TRUE) ELSE Err("VerificationError")

\* RangeProofWrapper::new; blinding is the scalar drawn from OsRng.
RangeProofNew(value, blinding) ==
    LET commitment == WithBlinding(value, blinding)
        proved == ProveSingle(value, blinding)
    IN  IF ~proved.ok THEN Err("RangeProofVerification")
        ELSE Ok([proof |-> [proof |-> proved.value, value |-> value, blinding |-> blinding],
                 commitment |-> commitment])

\* RangeProofWrapper::verify: "true" or an error kind.
RangeProofVerify(wrapper, commitment) ==
    IF ~Decompress(commitment).ok THEN "InvalidCommitment"
    ELSE IF ~VerifySingle(wrapper.proof, Decompress(commitment).value).ok
         THEN "RangeProofVerification"
         ELSE "true"

(***************************************************************************)
(* Stealth addresses (stealth_address.rs).  The source multiplies the      *)
(* shared-secret point by the base point and adds it to a scalar; the      *)
(* model reads the shared-secret point's bytes as a scalar at those places.*)
(***************************************************************************)
SharedSecretScalar(point) == FromBytesModOrder(Compress(point))

StealthAddressOf(view_private, spend_private) ==
    [view_private |-> view_private,
     view_public |-> PointMul(RISTRETTO_BASEPOINT_POINT, view_private),
     spend_private |-> spend_private,
     spend_public |-> PointMul(RISTRETTO_BASEPOINT_POINT, spend_private)]

\* generate_one_time_key: <<R, one_time_pubkey>>
GenerateOneTimeKey(addr, r) ==
    LET R == PointMul(RISTRETTO_BASEPOINT_POINT, r)
        shared_secret == PointMul(addr.view_public, r)
        one_time_pubkey ==
            PointAdd(addr.spend_public,
                     PointMul(RISTRETTO_BASEPOINT_POINT, SharedSecretScalar(shared_secret)))
    IN  <<R, one_time_pubkey>>

ScanOneTimeKey(addr, R, P) ==
    LET shared_secret == PointMul(R, addr.view_private)
        expected == PointAdd(addr.spend_public,
                             PointMul(RISTRETTO_BASEPOINT_POINT, SharedSecretScalar(shared_secret)))
    IN  P = expected

\* derive_private_key that returns the spend key without the shared secret.
DerivePrivateKeySpendOnly(addr, R) == addr.spend_private

DerivePrivateKey(addr, R) ==
    LET shared_secret == PointMul(R, addr.view_private)
    IN  ScalarAdd(addr.spend_private, SharedSecretScalar(shared_secret))

(***************************************************************************)
(* Outputs (utxo.rs).  The wallet and the builder read output.amount; the  *)
(* model carries it as the amount the output was created for.              *)
(***************************************************************************)
\* Output::new; blinding and r are the scalars drawn from OsRng.
OutputNew(amount, recipient, blinding, r) ==
    LET rp == RangeProofNew(amount, blinding)
        keys == GenerateOneTimeKey(recipient, r)
    IN  IF ~rp.ok THEN rp
        ELSE Ok([commitment |-> rp.value.commitment,
                 range_proof |-> rp.value.proof,
                 stealth_pubkey |-> keys[2],
                 tx_pubkey |-> keys[1],
                 amount |-> amount])

OutputVerify(output) == RangeProofVerify(output.range_proof, output.commitment)

\* hash_of: SHA-256 of the serialisation, as a collision-free symbolic digest.
HashOf(data) == <<"sha256", data>>

OutputRef(tx_hash, output_index) == [tx_hash |-> tx_hash, output_index |-> output_index]


(***************************************************************************)
(* Transactions (transaction.rs).                                          *)
(***************************************************************************)
TransactionNew(inputs, outputs, fee, now) ==
    [version |-> 1, inputs |-> inputs, outputs |-> outputs, fee |-> fee, timestamp |-> now]

TransactionHash(tx) == HashOf(tx)

\* "Verify each output's range proof": the first result that is not true.
RECURSIVE VerifyOutputs(_, _)
VerifyOutputs(outputs, i) ==
    IF i > Len(outputs) THEN "true"
    ELSE IF OutputVerify(outputs[i]) # "true" THEN OutputVerify(outputs[i])
    ELSE VerifyOutputs(outputs, i + 1)

\* "Verify no duplicate key images": HashSet::insert returns false on a repeat.
HasDuplicateKeyImage(inputs) ==
    \E i, j \in 1 .. Len(inputs) : i < j /\ inputs[i].key_image = inputs[j].key_image

\* Transaction::verify: "true", "false" or an error kind.  The loop over the
\* inputs that is to verify the ring signatures has an empty body, and the
\* balance check is absent.
TransactionVerifyNoDupCheck(tx) ==
    IF VerifyOutputs(tx.outputs, 1) # "true" THEN VerifyOutputs(tx.outputs, 1)
    ELSE "true"

TransactionVerify(tx) ==
    IF VerifyOutputs(tx.outputs, 1) # "true" THEN VerifyOutputs(tx.outputs, 1)
    ELSE IF HasDuplicateKeyImage(tx.inputs) THEN "false"
    ELSE "true"

(***************************************************************************)
(* Transaction builder (transaction_builder.rs).  available_outputs is a   *)
(* HashMap, so the order in which the selection loop visits it is not      *)
(* fixed: order is the sequence of its keys the iteration happens to take. *)
(* rnd holds the scalars drawn from OsRng on the way.                      *)
(***************************************************************************)
\* u64: amount, fee and the running sum of the selection loop.  The width
\* is scaled down; additions are plain "+" in the source, so they wrap in a
\* build without overflow checks and abort in a build with them.
U64Bits == 11

U64Limit == 2 ^ U64Bits

U64Max == U64Limit - 1

WrappingAdd(a, b) == (a + b) % U64Limit

\* The selection loop without its break: every available output is taken.
RECURSIVE SelectInputsAll(_, _, _, _, _)
SelectInputsAll(available_outputs, order, i, total_needed, acc) ==
    IF i > Len(order) THEN acc
    ELSE SelectInputsAll(available_outputs, order, i + 1, total_needed,
            [selected_inputs |-> Append(acc.selected_inputs, order[i]),
             selected_amount |-> WrappingAdd(acc.selected_amount,
                                            available_outputs[order[i]].amount)])

RECURSIVE SelectInputs(_, _, _, _, _)
SelectInputs(available_outputs, order, i, total_needed, acc) ==
    IF i > Len(order) \/ acc.selected_amount >= total_needed THEN acc
    ELSE SelectInputs(available_outputs, order, i + 1, total_needed,
            [selected_inputs |-> Append(acc.selected_inputs, order[i]),
             selected_amount |-> WrappingAdd(acc.selected_amount,
                                            available_outputs[order[i]].amount)])

BuildInput(addr, outref, output, alpha) ==
    LET ring == <<outref>>
        key_image == Compress(output.stealth_pubkey)
        signature == Sign(DerivePrivateKey(addr, output.tx_pubkey), key_image,
                          <<output.stealth_pubkey>>, 0, alpha, <<>>)
    IN  IF ~signature.ok THEN signature
        ELSE Ok([ring |-> ring, signature |-> signature.value, key_image |-> key_image])

\* build_transaction whose change is selected_amount - amount: the fee stays
\* in the change.
BuildTransactionFeeInChange(addr, available_outputs, order, recipient, amount, fee, rnd) ==
    LET total_needed == WrappingAdd(amount, fee)
        sel == SelectInputs(available_outputs, order, 1, total_needed,
                            [selected_inputs |-> <<>>, selected_amount |-> 0])
        payment == OutputNew(amount, recipient, rnd.payment_blinding, rnd.payment_r)
        change == OutputNew(sel.selected_amount - amount, addr,
                            rnd.change_blinding, rnd.change_r)
        built == [k \in 1 .. Len(sel.selected_inputs) |->
                    BuildInput(addr, sel.selected_inputs[k],
                               available_outputs[sel.selected_inputs[k]], rnd.alphas[k])]
    IN  IF sel.selected_amount < total_needed THEN Err("InsufficientFunds")
        ELSE IF ~payment.ok THEN payment
        ELSE IF sel.selected_amount > total_needed /\ ~change.ok THEN change
        ELSE IF \E k \in DOMAIN built : ~built[k].ok
             THEN built[CHOOSE k \in DOMAIN built : ~built[k].ok]
        ELSE Ok(TransactionNew(
                  [k \in DOMAIN built |-> built[k].value],
                  IF sel.selected_amount > total_needed
                  THEN <<payment.value, change.value>>
                  ELSE <<payment.value>>,
                  fee, rnd.now))

BuildTransaction(addr, available_outputs, order, recipient, amount, fee, rnd) ==
    LET total_needed == WrappingAdd(amount, fee)
        sel == SelectInputs(available_outputs, order, 1, total_needed,
                            [selected_inputs |-> <<>>, selected_amount |-> 0])
        payment == OutputNew(amount, recipient, rnd.payment_blinding, rnd.payment_r)
        change == OutputNew(sel.selected_amount - total_needed, addr,
                            rnd.change_blinding, rnd.change_r)
        built == [k \in 1 .. Len(sel.selected_inputs) |->
                    BuildInput(addr, sel.selected_inputs[k],
                               available_outputs[sel.selected_inputs[k]], rnd.alphas[k])]
    IN  IF sel.selected_amount < total_needed THEN Err("InsufficientFunds")
        ELSE IF ~payment.ok THEN payment
        ELSE IF sel.selected_amount > total_needed /\ ~change.ok THEN change
        ELSE IF \E k \in DOMAIN built : ~built[k].ok
             THEN built[CHOOSE k \in DOMAIN built : ~built[k].ok]
        ELSE Ok(TransactionNew(
                  [k \in DOMAIN built |-> built[k].value],
                  IF sel.selected_amount > total_needed
                  THEN <<payment.value, change.value>>
                  ELSE <<payment.value>>,
                  fee, rnd.now))

\* Some addition of build_transaction overflows: "amount + fee", or a
\* "selected_amount += output.amount" of the selection loop.
RECURSIVE SelectOverflows(_, _, _, _, _)
SelectOverflows(available_outputs, order, i, total_needed, selected_amount) ==
    IF i > Len(order) \/ selected_amount >= total_needed THEN FALSE
    ELSE \/ selected_amount + available_outputs[order[i]].amount > U64Max
         \/ SelectOverflows(available_outputs, order, i + 1, total_needed,
                             selected_amount + available_outputs[order[i]].amount)

BuildOverflows(available_outputs, order, amount, fee) ==
    \/ amount + fee > U64Max
    \/ SelectOverflows(available_outputs, order, 1, amount + fee, 0)

\* build_transaction as built with (debug) or without (release) overflow
\* checks; Err("panic") stands for the abort.
BuildTransactionProfile(overflow_checks, addr, available_outputs, order, recipient, amount, fee, rnd) ==
    IF overflow_checks /\ BuildOverflows(available_outputs, order, amount, fee)
    THEN Err("panic")
    ELSE BuildTransaction(addr, available_outputs, order, recipient, amount, fee, rnd)

\* Wallet::create_transaction on the state behind the lock.
CreateTransaction(overflow_checks, state, addr, order, recipient, amount, fee, rnd) ==
    IF overflow_checks /\ amount + fee > U64Max THEN Err("panic")
    ELSE IF WrappingAdd(amount, fee) > state.balance THEN Err("InsufficientFunds")
    ELSE LET result == BuildTransactionProfile(overflow_checks, addr,
                          state.unspent_outputs, order, recipient, amount, fee, rnd)
         IN  IF result.ok \/ result = Err("panic") THEN result
             ELSE Err("TransactionBuildError")

(***************************************************************************)
(* Output scanner (scanner.rs) and wallet (wallet/mod.rs).                 *)
(***************************************************************************)
\* scan_transaction: Some(owned outputs keyed by reference), or None.
\* scan_transaction that stops at the first output it recognises.
ScanTransactionFirstOnly(tx, address) ==
    LET owned == {idx \in 1 .. Len(tx.outputs) :
                    ScanOneTimeKey(address, tx.outputs[idx].tx_pubkey,
                                   tx.outputs[idx].stealth_pubkey)}
        first == {idx \in owned : \A other \in owned : idx <= other}
        owned_outputs == [ref \in {OutputRef(TransactionHash(tx), idx - 1) : idx \in first}
                            |-> tx.outputs[ref.output_index + 1]]
    IN  IF owned = {} THEN [some |-> FALSE] ELSE [some |-> TRUE, value |-> owned_outputs]

ScanTransaction(tx, address) ==
    LET owned == {idx \in 1 .. Len(tx.outputs) :
                    ScanOneTimeKey(address, tx.outputs[idx].tx_pubkey,
                                   tx.outputs[idx].stealth_pubkey)}
        owned_outputs == [ref \in {OutputRef(TransactionHash(tx), idx - 1) : idx \in owned}
                            |-> tx.outputs[ref.output_index + 1]]
    IN  IF owned = {} THEN [some |-> FALSE] ELSE [some |-> TRUE, value |-> owned_outputs]

RECURSIVE SumAmounts(_)
SumAmounts(outputs) ==
    IF DOMAIN outputs = {} THEN 0
    ELSE LET ref == CHOOSE x \in DOMAIN outputs : TRUE
         IN  outputs[ref].amount
               + SumAmounts([x \in DOMAIN outputs \ {ref} |-> outputs[x]])

MapInsert(map, key, value) == (key :> value) @@ map

MapRemove(map, key) == [x \in DOMAIN map \ {key} |-> map[x]]

\* "Add new outputs": balance += amount and insert, for every scanned output.
AddNewOutputs(state, new_outputs) ==
    IF ~new_outputs.some THEN state
    ELSE [state EXCEPT !.balance = @ + SumAmounts(new_outputs.value),
                       !.unspent_outputs = new_outputs.value @@ @]

\* "Mark spent outputs" for one input; ring[0] on an empty ring aborts.
MarkSpent(state, input) ==
    IF Len(input.ring) = 0 THEN [state |-> state, outcome |-> "panic"]
    ELSE
      LET known == input.key_image \in DOMAIN state.spent_key_images
          inserted == [state EXCEPT !.spent_key_images =
                          MapInsert(@, input.key_image, input.ring[1])]
      IN  IF ~known THEN [state |-> inserted, outcome |-> "Ok"]
          ELSE LET outref == state.spent_key_images[input.key_image]
               IN  IF outref \in DOMAIN inserted.unspent_outputs
                   THEN [state |-> [inserted EXCEPT
                                      !.balance = @ - inserted.unspent_outputs[outref].amount,
                                      !.unspent_outputs = MapRemove(@, outref)],
                         outcome |-> "Ok"]
                   ELSE [state |-> inserted, outcome |-> "Ok"]

RECURSIVE MarkSpentAll(_, _, _)
MarkSpentAll(state, inputs, i) ==
    IF i > Len(inputs) THEN [state |-> state, outcome |-> "Ok"]
    ELSE LET step == MarkSpent(state, inputs[i])
         IN  IF step.outcome # "Ok" THEN step
             ELSE MarkSpentAll(step.state, inputs, i + 1)

RECURSIVE ProcessTransactions(_, _, _, _)
ProcessTransactions(state, transactions, i, address) ==
    IF i > Len(transactions) THEN [state |-> state, outcome |-> "Ok"]
    ELSE LET scanned == AddNewOutputs(state, ScanTransaction(transactions[i], address))
             step == MarkSpentAll(scanned, transactions[i].inputs, 1)
         IN  IF step.outcome # "Ok" THEN step
             ELSE ProcessTransactions(step.state, transactions, i + 1, address)

\* Wallet::process_block: the state it leaves behind and how the call ended.
ProcessBlock(state, block, address) ==
    ProcessTransactions(state, block.transactions, 1, address)

\* Wallet::new
WalletNew == [unspent_outputs |-> <<>>, spent_key_images |-> <<>>, balance |-> 0]


(***************************************************************************)
(* State.  Each specification below exercises one component and leaves    *)
(* the variables of the others at their idle values.                       *)
(***************************************************************************)
VARIABLES
    public_keys,       \* ring handed to sign and to verify
    secret_key,        \* sign's secret_key
    real_index,        \* sign's real_index
    signature,         \* what RingSignature::sign returned
    verified,          \* what RingSignature::verify returned on it
    earlier,           \* signer key and key image of an earlier signature
    range_result,      \* what RangeProofWrapper::new returned, and for which value
    range_verified,    \* what RangeProofWrapper::verify returned on it
    output,            \* what Output::new returned
    output_verified,   \* what Output::verify returned on it
    tx,                \* a transaction received for verification
    tx_verified,       \* what Transaction::verify returned on it
    available_outputs, \* the builder's available_outputs
    built,             \* what build_transaction returned
    wallet_state,      \* WalletState behind the lock
    before_state,      \* WalletState when the last process_block was entered
    last_block,        \* the block of the last process_block
    last_outcome,      \* how the last process_block ended
    processed          \* number of process_block calls so far

ringVars == <<public_keys, secret_key, real_index, signature, verified, earlier>>

rangeVars == <<range_result, range_verified, output, output_verified>>

txVars == <<tx, tx_verified>>

builderVars == <<available_outputs, built>>

walletVars == <<wallet_state, before_state, last_block, last_outcome, processed>>

VARIABLES
    commit_input,      \* values and blindings handed to the commitment functions
    commitment,        \* what with_blinding returned for them
    opened,            \* what PedersenCommitment::verify returned
    sum                \* what PedersenCommitment::add returned

pedersenVars == <<commit_input, commitment, opened, sum>>

VARIABLES
    stealth_input,     \* the recipient's address, the sender's r, a scanning address
    one_time,          \* what generate_one_time_key returned: <<R, P>>
    derived,           \* what derive_private_key returned for R
    recognised         \* what scan_one_time_key returned for (R, P)

stealthVars == <<stealth_input, one_time, derived, recognised>>

VARIABLES
    scan_input,        \* the transaction and the address handed to scan_transaction
    scanned,           \* what scan_transaction returned
    block_input,       \* the transactions handed to Block::new
    new_block,         \* the block Block::new returned
    received_block,    \* a block as a peer hands it to Block::verify
    block_verified     \* what Block::verify returned on it

scanVars == <<scan_input, scanned>>

blockVars == <<block_input, new_block, received_block, block_verified>>

VARIABLES
    build_request      \* amount, fee, recipient and visiting order of a build_transaction call

requestVars == <<build_request>>

VARIABLES
    state_lock,        \* the RwLock around WalletState: who holds which side
    calls,             \* per task: the Wallet method it is in and how far it got
    aggregator,        \* the MetricsAggregator
    metrics_out,       \* what get_metrics returned last
    blocks_given,      \* timestamps of all blocks given to process_block
    keystore_input,    \* encryption key and data handed to KeyStore::encrypt
    encrypted,         \* what KeyStore::encrypt returned
    decrypted,         \* what KeyStore::decrypt returned on it
    handler,           \* the DandelionHandler
    dandelion_now,     \* Instant::now() as the handler sees it
    relayed,           \* the last call on the handler and what it returned
    awaiting,          \* transactions handled and not yet returned by process_timeouts
    swap,              \* the CrossChainSwap
    swap_now,          \* SystemTime::now() as the swap sees it
    swap_result        \* the last call on the swap and what it returned

lockVars == <<state_lock, calls>>

metricsVars == <<aggregator, metrics_out, blocks_given>>

keystoreVars == <<keystore_input, encrypted, decrypted>>

dandelionVars == <<handler, dandelion_now, relayed, awaiting>>

swapVars == <<swap, swap_now, swap_result>>

\* Variables of the components outside the transaction core.
serviceVars == <<lockVars, metricsVars, keystoreVars, dandelionVars, swapVars>>

\* Variables of the functions that are called on their own.
pureVars == <<pedersenVars, stealthVars, scanVars, blockVars, requestVars, serviceVars>>

vars == <<ringVars, rangeVars, txVars, builderVars, walletVars, pureVars>>

KeyOf(x) == PointMul(RISTRETTO_BASEPOINT_POINT, x)

RingIdle ==
    /\ public_keys = <<>>
    /\ secret_key = 0
    /\ real_index = 0
    /\ signature = Err("none")
    /\ verified = "none"
    /\ earlier = Err("none")

RangeIdle ==
    /\ range_result = Err("none")
    /\ range_verified = "none"
    /\ output = Err("none")
    /\ output_verified = "none"

TxIdle ==
    /\ tx = Err("none")
    /\ tx_verified = "none"

BuilderIdle ==
    /\ available_outputs = <<>>
    /\ built = Err("none")

WalletIdle ==
    /\ wallet_state = WalletNew
    /\ before_state = WalletNew
    /\ last_block = Err("none")
    /\ last_outcome = "none"
    /\ processed = 0

PedersenIdle ==
    /\ commit_input = Err("none")
    /\ commitment = Err("none")
    /\ opened = Err("none")
    /\ sum = Err("none")

StealthIdle ==
    /\ stealth_input = Err("none")
    /\ one_time = Err("none")
    /\ derived = Err("none")
    /\ recognised = Err("none")

ScanIdle ==
    /\ scan_input = Err("none")
    /\ scanned = Err("none")

BlockIdle ==
    /\ block_input = Err("none")
    /\ new_block = Err("none")
    /\ received_block = Err("none")
    /\ block_verified = Err("none")

RequestIdle == build_request = Err("none")

LockIdle ==
    /\ state_lock = [readers |-> {}, writer |-> {}]
    /\ calls = <<>>

MetricsIdle ==
    /\ aggregator = Err("none")
    /\ metrics_out = Err("none")
    /\ blocks_given = <<>>

KeystoreIdle ==
    /\ keystore_input = Err("none")
    /\ encrypted = Err("none")
    /\ decrypted = Err("none")

DandelionIdle ==
    /\ handler = Err("none")
    /\ dandelion_now = 0
    /\ relayed = [call |-> "none"]
    /\ awaiting = {}

SwapIdle ==
    /\ swap = Err("none")
    /\ swap_now = 0
    /\ swap_result = Err("none")

ServiceIdle == LockIdle /\ MetricsIdle /\ KeystoreIdle /\ DandelionIdle /\ SwapIdle

PureIdle ==
    PedersenIdle /\ StealthIdle /\ ScanIdle /\ BlockIdle /\ RequestIdle /\ ServiceIdle

\* The transaction core: everything but the service components.
coreVars ==
    <<ringVars, rangeVars, txVars, builderVars, walletVars,
      pedersenVars, stealthVars, scanVars, blockVars, requestVars>>

CoreIdle ==
    /\ RingIdle /\ RangeIdle /\ TxIdle /\ BuilderIdle /\ WalletIdle
    /\ PedersenIdle /\ StealthIdle /\ ScanIdle /\ BlockIdle /\ RequestIdle

(***************************************************************************)
(* Ring signatures: one call of sign, then verify on what it returned.     *)
(***************************************************************************)
SignCall(max_ring) ==
    /\ \E n \in 0 .. max_ring, x \in Scalars, idx \in 0 .. max_ring,
          ki \in Scalars, alpha \in Scalars :
         \E xs \in [1 .. n -> Scalars],
            randoms \in [1 .. (IF n > 0 THEN n - 1 ELSE 0) -> Scalars] :
           /\ public_keys' = [k \in 1 .. n |-> KeyOf(xs[k])]
           /\ secret_key' = x
           /\ real_index' = idx
           /\ signature' = Sign(x, Compress(KeyOf(ki)), public_keys', idx, alpha, randoms)
           /\ verified' = "none"

SignAct ==
    /\ signature = Err("none")
    /\ SignCall(MaxRing)
    /\ UNCHANGED <<earlier, rangeVars, txVars, builderVars, walletVars, pureVars>>

VerifyAct ==
    /\ signature.ok
    /\ verified = "none"
    /\ verified' = Verify(signature.value, public_keys)
    /\ UNCHANGED <<public_keys, secret_key, real_index, signature, earlier>>
    /\ UNCHANGED <<rangeVars, txVars, builderVars, walletVars, pureVars>>

InitRing == RingIdle /\ RangeIdle /\ TxIdle /\ BuilderIdle /\ WalletIdle /\ PureIdle

NextRing == SignAct \/ VerifyAct

SpecRing == InitRing /\ [][NextRing]_vars

\* The signer holds the key at real_index: P_pi = x * B.
HonestSigner ==
    /\ signature.ok
    /\ public_keys[real_index + 1] = KeyOf(secret_key)

\* C1: a signature made by sign for a ring of at least two keys, by the holder
\* of the key at real_index, is accepted by verify on the same ring.
RingCompleteness ==
    (HonestSigner /\ Len(public_keys) >= 2 /\ verified # "none") => verified = "true"


(***************************************************************************)
(* Two signatures one after the other: earlier remembers who made the first*)
(* and with which key image.                                               *)
(***************************************************************************)
SignLinkAct ==
    /\ signature = Err("none")
    /\ SignCall(MaxLinkRing)
    /\ UNCHANGED <<earlier, rangeVars, txVars, builderVars, walletVars, pureVars>>

\* The first signature is published: its key image is kept, with the key that
\* made it, and the signer goes on to the next call.
PublishAct ==
    /\ signature.ok
    /\ earlier = Err("none")
    /\ earlier' = Ok([secret_key |-> secret_key, key_image |-> signature.value.key_image])
    /\ public_keys' = <<>>
    /\ secret_key' = 0
    /\ real_index' = 0
    /\ signature' = Err("none")
    /\ UNCHANGED <<verified, rangeVars, txVars, builderVars, walletVars, pureVars>>

InitLink == RingIdle /\ RangeIdle /\ TxIdle /\ BuilderIdle /\ WalletIdle /\ PureIdle

NextLink == SignLinkAct \/ PublishAct

SpecLink == InitLink /\ [][NextLink]_vars

\* C10: two signatures made with the same private key carry the same key
\* image, and two made with different private keys carry different ones.
RingLinkability ==
    (earlier.ok /\ signature.ok) =>
        ((earlier.value.secret_key = secret_key)
            <=> (earlier.value.key_image = signature.value.key_image))

(***************************************************************************)
(* Range proofs and outputs: RangeProofWrapper::new and Output::new on an  *)
(* amount, then verify on what they returned.                              *)
(***************************************************************************)
Amounts == 0 .. (Q - 1)

Addresses == {StealthAddressOf(a, b) : a \in Scalars, b \in Scalars}

RangeNewAct ==
    /\ range_result = Err("none")
    /\ \E value \in Amounts, blinding \in Scalars :
         range_result' = [value |-> value, blinding |-> blinding,
                          returned |-> RangeProofNew(value, blinding)]
    /\ UNCHANGED <<range_verified, output, output_verified>>
    /\ UNCHANGED <<ringVars, txVars, builderVars, walletVars, pureVars>>

RangeVerifyAct ==
    /\ range_result # Err("none")
    /\ range_result.returned.ok
    /\ range_verified = "none"
    /\ range_verified' = RangeProofVerify(range_result.returned.value.proof,
                                          range_result.returned.value.commitment)
    /\ UNCHANGED <<range_result, output, output_verified>>
    /\ UNCHANGED <<ringVars, txVars, builderVars, walletVars, pureVars>>

OutputNewAct ==
    /\ output = Err("none")
    /\ \E amount \in Amounts, recipient \in Addresses,
          blinding \in Scalars, r \in Scalars :
         output' = OutputNew(amount, recipient, blinding, r)
    /\ UNCHANGED <<range_result, range_verified, output_verified>>
    /\ UNCHANGED <<ringVars, txVars, builderVars, walletVars, pureVars>>

OutputVerifyAct ==
    /\ output.ok
    /\ output_verified = "none"
    /\ output_verified' = OutputVerify(output.value)
    /\ UNCHANGED <<range_result, range_verified, output>>
    /\ UNCHANGED <<ringVars, txVars, builderVars, walletVars, pureVars>>

InitRange == RingIdle /\ RangeIdle /\ TxIdle /\ BuilderIdle /\ WalletIdle /\ PureIdle

NextRange == RangeNewAct \/ RangeVerifyAct \/ OutputNewAct \/ OutputVerifyAct

SpecRange == InitRange /\ [][NextRange]_vars

\* C2: for a value within the range, RangeProofWrapper::new returns a proof
\* and the commitment commit(v, r) for the blinding it drew, and the proof
\* verifies against that commitment; an output made for it verifies.
RangeProofCompleteness ==
    /\ (range_result # Err("none") /\ range_result.value < RangeLimit) =>
          /\ range_result.returned.ok
          /\ range_result.returned.value.commitment
                = WithBlinding(range_result.value, range_result.blinding)
          /\ range_verified # "none" => range_verified = "true"
    /\ (output.ok /\ output.value.amount < RangeLimit /\ output_verified # "none") =>
          output_verified = "true"


\* C13: for a value of 2^bits or more, RangeProofWrapper::new returns no
\* proof and fails with the error kind InvalidAmount.
RangeProofOutOfRange ==
    (range_result # Err("none") /\ range_result.value >= RangeLimit) =>
        /\ ~range_result.returned.ok
        /\ range_result.returned.error = "InvalidAmount"


(***************************************************************************)
(* Transaction verification on transactions an untrusted peer may send.    *)
(* The ledger (UTXO set) holds two outputs of earlier transactions; the    *)
(* inputs of a received transaction refer to them.                         *)
(***************************************************************************)
LocalAddress == StealthAddressOf(1, 2)

OtherAddress == StealthAddressOf(2, 1)

LedgerRefs == {OutputRef(HashOf("genesis"), k) : k \in 0 .. 1}

Ledger ==
    [ref \in LedgerRefs |->
        OutputNew(1, IF ref.output_index = 0 THEN LocalAddress ELSE OtherAddress,
                  1 + ref.output_index, 2).value]

\* The one-time public keys of the outputs a ring refers to.
RingKeys(ring) == [k \in 1 .. Len(ring) |-> Ledger[ring[k]].stealth_pubkey]

\* Inputs over a ring of the first ledger output, with signatures of that
\* length, some of which verify and some not, and one of two key images.
ReceivedInputs ==
    {[ring |-> <<OutputRef(HashOf("genesis"), 0)>>,
      signature |-> [c |-> <<c0>>, r |-> << <<r0>> >>, key_image |-> Compress(KeyOf(ki))],
      key_image |-> Compress(KeyOf(ki))] :
        c0 \in 0 .. 1, r0 \in {0, 2}, ki \in 1 .. 2}

\* An output as Output::new makes it, and outputs whose commitment is the one
\* their range proof is bound to, for the amounts 1 and 2.
ReceivedOutputs ==
    LET made == {OutputNew(amount, OtherAddress, 1, 2).value : amount \in 1 .. 2}
    IN  {o \in made : o.amount = 1}
            \cup {[o EXCEPT !.commitment = o.range_proof.proof.V] : o \in made}

SeqsUpTo(S, n) == UNION {[1 .. k -> S] : k \in 0 .. n}

ReceivedTransactions ==
    {TransactionNew(inputs, outputs, fee, 1) :
        inputs \in SeqsUpTo(ReceivedInputs, MaxTxInputs),
        outputs \in SeqsUpTo(ReceivedOutputs, MaxTxOutputs),
        fee \in 0 .. 1}

TransactionVerifyAct ==
    /\ tx # Err("none")
    /\ tx_verified = "none"
    /\ tx_verified' = TransactionVerify(tx)
    /\ UNCHANGED <<tx, ringVars, rangeVars, builderVars, walletVars, pureVars>>

InitTx ==
    /\ tx \in ReceivedTransactions
    /\ tx_verified = "none"
    /\ RingIdle /\ RangeIdle /\ BuilderIdle /\ WalletIdle /\ PureIdle

NextTx == TransactionVerifyAct

SpecTx == InitTx /\ [][NextTx]_vars

RECURSIVE SumPoints(_)
SumPoints(points) ==
    IF points = <<>> THEN Identity
    ELSE PointAdd(points[1], SumPoints(Tail(points)))

\* (sum of C_in) - (sum of C_out) - fee * B, the inputs' commitments being
\* those of the outputs their rings refer to.
BalanceOf(in_commitments, out_commitments, fee) ==
    PointAdd(SumPoints(in_commitments),
             PointNeg(PointAdd(SumPoints(out_commitments),
                               PointMul(RISTRETTO_BASEPOINT_POINT, ScalarFromU64(fee)))))

TxBalance(t) ==
    BalanceOf([k \in 1 .. Len(t.inputs) |->
                  Decompress(Ledger[t.inputs[k].ring[1]].commitment).value],
              [k \in 1 .. Len(t.outputs) |-> Decompress(t.outputs[k].commitment).value],
              t.fee)

\* C3: a transaction is accepted only if the ring signature of every input
\* verifies against the one-time keys of the outputs its ring refers to.
TxRingSignaturesVerified ==
    tx_verified = "true" =>
        \A k \in 1 .. Len(tx.inputs) :
            Verify(tx.inputs[k].signature, RingKeys(tx.inputs[k].ring)) = "true"

\* C4: a transaction is accepted only if its inputs, outputs and fee balance
\* as group elements.
TxBalanceVerified ==
    tx_verified = "true" => TxBalance(tx) = Identity

\* C5: a transaction in which two inputs carry the same key image is never
\* accepted.
TxNoDuplicateKeyImage ==
    tx_verified = "true" =>
        \A i, j \in 1 .. Len(tx.inputs) :
            i # j => tx.inputs[i].key_image # tx.inputs[j].key_image

\* Two inputs share a key image, every output verifies, and the transaction
\* was refused.
TxDuplicateRefused ==
    /\ tx_verified = "false"
    /\ Len(tx.outputs) > 0
    /\ \E i, j \in 1 .. Len(tx.inputs) :
          i # j /\ tx.inputs[i].key_image = tx.inputs[j].key_image


(***************************************************************************)
(* The builder: the wallet holds some outputs paid to its own address and  *)
(* build_transaction is called once on them.                               *)
(***************************************************************************)
OwnedRefs == {OutputRef(HashOf("funding"), k) : k \in 0 .. (MaxOwned - 1)}

OwnedOutputs ==
    {OutputNew(amount, LocalAddress, blinding, 2).value :
        amount \in 1 .. 2, blinding \in Scalars}

Orders(S) == {order \in [1 .. Cardinality(S) -> S] :
                 \A i, j \in 1 .. Cardinality(S) : i # j => order[i] # order[j]}

BuildAct ==
    /\ built = Err("none")
    /\ \E amount \in 0 .. 2, fee \in 0 .. 1,
          order \in Orders(DOMAIN available_outputs),
          rnd \in [payment_blinding : Scalars, payment_r : NonZeroScalars,
                   change_blinding : Scalars, change_r : {2},
                   alphas : [1 .. MaxOwned -> Scalars], now : {1}] :
         built' = BuildTransaction(LocalAddress, available_outputs, order,
                                   OtherAddress, amount, fee, rnd)
    /\ UNCHANGED <<available_outputs, ringVars, rangeVars, txVars, walletVars, pureVars>>

InitBuilder ==
    /\ available_outputs \in UNION {[refs -> OwnedOutputs] : refs \in SUBSET OwnedRefs}
    /\ built = Err("none")
    /\ RingIdle /\ RangeIdle /\ TxIdle /\ WalletIdle /\ PureIdle

NextBuilder == BuildAct

SpecBuilder == InitBuilder /\ [][NextBuilder]_vars

BuiltBalance ==
    BalanceOf([k \in 1 .. Len(built.value.inputs) |->
                  Decompress(available_outputs[built.value.inputs[k].ring[1]].commitment).value],
              [k \in 1 .. Len(built.value.outputs) |->
                  Decompress(built.value.outputs[k].commitment).value],
              built.value.fee)

\* C6: every transaction build_transaction returns balances: the commitments
\* of its selected inputs minus those of its outputs minus fee * B is the
\* identity.
BuilderBalance ==
    built.ok => BuiltBalance = Identity


(***************************************************************************)
(* The wallet: blocks made of the transactions below are handed to         *)
(* process_block one after the other.                                      *)
(***************************************************************************)
\* Pays 1 to the wallet's address.
TxPay1 == TransactionNew(<<>>, <<OutputNew(1, LocalAddress, 1, 2).value>>, 0, 1)

\* Pays 2 to the wallet's address and 1 to another address.
TxPay2 ==
    TransactionNew(<<>>, <<OutputNew(2, LocalAddress, 2, 1).value,
                           OutputNew(1, OtherAddress, 1, 2).value>>, 0, 2)

Pay1Ref == OutputRef(TransactionHash(TxPay1), 0)

Pay2Ref == OutputRef(TransactionHash(TxPay2), 0)

\* An input that spends TxPay1's output, as the builder forms its key image
\* and signature, over the given ring with the spent output at index real.
SpendPay1(ring, real) ==
    LET spent == TxPay1.outputs[1]
        key_image == Compress(spent.stealth_pubkey)
        keys == [k \in 1 .. Len(ring) |->
                    IF ring[k] = Pay1Ref THEN spent.stealth_pubkey
                    ELSE TxPay2.outputs[ring[k].output_index + 1].stealth_pubkey]
    IN  [ring |-> ring,
         signature |-> Sign(DerivePrivateKey(LocalAddress, spent.tx_pubkey), key_image,
                            keys, real, 1, [k \in 1 .. (Len(ring) - 1) |-> 1]).value,
         key_image |-> key_image]

\* Spends TxPay1's output with a ring of that output alone.
TxSpend ==
    TransactionNew(<<SpendPay1(<<Pay1Ref>>, 0)>>,
                   <<OutputNew(1, OtherAddress, 2, 2).value>>, 0, 3)

\* Spends TxPay1's output with a decoy in front of it in the ring.
TxSpendDecoy ==
    TransactionNew(<<SpendPay1(<<OutputRef(TransactionHash(TxPay2), 1), Pay1Ref>>, 1)>>,
                   <<OutputNew(1, OtherAddress, 2, 2).value>>, 0, 4)

\* Pays 1 to the wallet's address and carries an input whose ring is empty.
TxMalformed ==
    TransactionNew(<<[SpendPay1(<<Pay1Ref>>, 0) EXCEPT !.ring = <<>>]>>,
                   <<OutputNew(1, LocalAddress, 0, 2).value>>, 0, 5)

TxPool == {TxPay1, TxPay2, TxSpend, TxSpendDecoy, TxMalformed}

Blocks == {[transactions |-> txs] :
              txs \in UNION {[1 .. k -> TxPool] : k \in 1 .. MaxBlockTxs}}

ProcessBlockAct ==
    /\ processed < MaxBlocks
    /\ last_outcome # "panic"
    /\ \E block \in Blocks :
         LET done == ProcessBlock(wallet_state, block, LocalAddress)
         IN  /\ wallet_state' = done.state
             /\ last_outcome' = done.outcome
             /\ last_block' = block
    /\ before_state' = wallet_state
    /\ processed' = processed + 1
    /\ UNCHANGED <<ringVars, rangeVars, txVars, builderVars, pureVars>>

InitWallet == RingIdle /\ RangeIdle /\ TxIdle /\ BuilderIdle /\ WalletIdle /\ PureIdle

NextWallet == ProcessBlockAct

SpecWallet == InitWallet /\ [][NextWallet]_vars

RECURSIVE UnspentTotal(_, _)
UnspentTotal(unspent, refs) ==
    IF refs = {} THEN 0
    ELSE LET ref == CHOOSE x \in refs : TRUE
         IN  unspent[ref].amount + UnspentTotal(unspent, refs \ {ref})

\* C7: after every completed process_block, balance is the sum of the values
\* of the outputs held in unspent_outputs.
WalletBalanceInvariant ==
    last_outcome = "Ok" =>
        wallet_state.balance
            = UnspentTotal(wallet_state.unspent_outputs, DOMAIN wallet_state.unspent_outputs)

\* The key images the last block published.
PublishedKeyImages ==
    UNION {{last_block.transactions[i].inputs[k].key_image :
                k \in 1 .. Len(last_block.transactions[i].inputs)} :
            i \in 1 .. Len(last_block.transactions)}

\* The outputs held unspent before the call whose key image the block published.
SpentRefs ==
    {ref \in DOMAIN before_state.unspent_outputs :
        Compress(before_state.unspent_outputs[ref].stealth_pubkey) \in PublishedKeyImages}

PaysWallet(block) ==
    \E i \in 1 .. Len(block.transactions) :
        ScanTransaction(block.transactions[i], LocalAddress).some

\* C8: when a processed block publishes the key image of an output the wallet
\* held unspent, that output is gone from unspent_outputs by the end of the
\* call and, the block paying nothing to the wallet, balance has gone down by
\* exactly its value.
SpentOnPublication ==
    last_outcome = "Ok" =>
        /\ \A ref \in SpentRefs : ref \notin DOMAIN wallet_state.unspent_outputs
        /\ ~PaysWallet(last_block) =>
              wallet_state.balance
                = before_state.balance - UnspentTotal(before_state.unspent_outputs, SpentRefs)

\* C9: a process_block call that fails part-way leaves unspent_outputs,
\* spent_key_images and balance as they were before the call.
ProcessBlockAtomic ==
    last_outcome = "panic" => wallet_state = before_state

(***************************************************************************)
(* Signatures received from a peer: verify is called on a signature and a  *)
(* ring, and, once it has accepted them, on the same pair with one field   *)
(* changed.  earlier keeps the accepted pair and names the change.         *)
(***************************************************************************)
\* Largest ring of a received signature.
MaxTamperRing == 2

TamperKeys == {KeyOf(1), KeyOf(2)}

ReceivedSignatures(n) ==
    {[c |-> c, r |-> [k \in 1 .. n |-> <<s[k]>>], key_image |-> Compress(KeyOf(1))] :
        c \in [1 .. n -> Scalars], s \in [1 .. n -> Scalars]}

VerifyReceivedAct ==
    /\ signature.ok
    /\ verified = "none"
    /\ verified' = Verify(signature.value, public_keys)
    /\ UNCHANGED <<public_keys, secret_key, real_index, signature, earlier>>
    /\ UNCHANGED <<rangeVars, txVars, builderVars, walletVars, pureVars>>

Remember(change, index) ==
    earlier' = Ok([signature |-> signature.value, public_keys |-> public_keys,
                   change |-> change, index |-> index])

TamperKeyImageAct ==
    /\ verified = "true" /\ earlier = Err("none")
    /\ \E ki \in Scalars :
         /\ Compress(KeyOf(ki)) # signature.value.key_image
         /\ signature' = Ok([signature.value EXCEPT !.key_image = Compress(KeyOf(ki))])
    /\ Remember("key_image", 0)
    /\ verified' = "none"
    /\ UNCHANGED <<public_keys, secret_key, real_index>>
    /\ UNCHANGED <<rangeVars, txVars, builderVars, walletVars, pureVars>>

TamperResponseAct ==
    /\ verified = "true" /\ earlier = Err("none")
    /\ \E i \in 1 .. Len(public_keys), s \in Scalars :
         /\ s # signature.value.r[i][1]
         /\ signature' = Ok([signature.value EXCEPT !.r[i] = <<s>>])
         /\ Remember("response", i)
    /\ verified' = "none"
    /\ UNCHANGED <<public_keys, secret_key, real_index>>
    /\ UNCHANGED <<rangeVars, txVars, builderVars, walletVars, pureVars>>

TamperChallengeAct ==
    /\ verified = "true" /\ earlier = Err("none")
    /\ Len(public_keys) > 0
    /\ \E c0 \in Scalars :
         /\ c0 # signature.value.c[1]
         /\ signature' = Ok([signature.value EXCEPT !.c[1] = c0])
    /\ Remember("challenge", 1)
    /\ verified' = "none"
    /\ UNCHANGED <<public_keys, secret_key, real_index>>
    /\ UNCHANGED <<rangeVars, txVars, builderVars, walletVars, pureVars>>

TamperPublicKeyAct ==
    /\ verified = "true" /\ earlier = Err("none")
    /\ \E i \in 1 .. Len(public_keys), key \in TamperKeys :
         /\ key # public_keys[i]
         /\ public_keys' = [public_keys EXCEPT ![i] = key]
         /\ Remember("public_key", i)
    /\ verified' = "none"
    /\ UNCHANGED <<secret_key, real_index, signature>>
    /\ UNCHANGED <<rangeVars, txVars, builderVars, walletVars, pureVars>>

InitTamper ==
    /\ public_keys \in UNION {[1 .. n -> TamperKeys] : n \in 0 .. MaxTamperRing}
    /\ signature \in {Ok(sig) : sig \in ReceivedSignatures(Len(public_keys))}
    /\ secret_key = 0 /\ real_index = 0
    /\ verified = "none" /\ earlier = Err("none")
    /\ RangeIdle /\ TxIdle /\ BuilderIdle /\ WalletIdle /\ PureIdle

NextTamper ==
    \/ VerifyReceivedAct
    \/ TamperKeyImageAct
    \/ TamperResponseAct
    \/ TamperChallengeAct
    \/ TamperPublicKeyAct

SpecTamper == InitTamper /\ [][NextTamper]_vars

\* The second verify has run, on the accepted pair with the named change.
Tampered(change) ==
    earlier.ok /\ earlier.value.change = change /\ verified # "none"

\* C11: a signature that verify accepts with key image I is rejected once its
\* key_image field holds any other key image.
RingKeyImageBound ==
    Tampered("key_image") => verified = "false"

PedersenValues == 0 .. (Q - 1)

WithBlindingAct ==
    /\ commit_input.ok
    /\ commitment = Err("none")
    /\ commitment' = Ok(<<WithBlinding(commit_input.value.v1, commit_input.value.r1),
                          WithBlinding(commit_input.value.v2, commit_input.value.r2)>>)
    /\ UNCHANGED <<commit_input, opened, sum>>
    /\ UNCHANGED <<ringVars, rangeVars, txVars, builderVars, walletVars, stealthVars, scanVars, blockVars, requestVars, serviceVars>>

CommitmentVerifyAct ==
    /\ commitment.ok
    /\ opened = Err("none")
    /\ opened' = Ok(CommitmentVerify(commitment.value[1], commit_input.value.v_open,
                                     commit_input.value.r1))
    /\ UNCHANGED <<commit_input, commitment, sum>>
    /\ UNCHANGED <<ringVars, rangeVars, txVars, builderVars, walletVars, stealthVars, scanVars, blockVars, requestVars, serviceVars>>

CommitmentAddAct ==
    /\ commitment.ok
    /\ sum = Err("none")
    /\ sum' = [returned |-> CommitmentAdd(commitment.value[1], commitment.value[2])]
    /\ UNCHANGED <<commit_input, commitment, opened>>
    /\ UNCHANGED <<ringVars, rangeVars, txVars, builderVars, walletVars, stealthVars, scanVars, blockVars, requestVars, serviceVars>>

InitPedersen ==
    /\ commit_input \in {Ok(i) : i \in [v1 : PedersenValues, r1 : Scalars,
                                        v2 : PedersenValues, r2 : Scalars,
                                        v_open : PedersenValues]}
    /\ commitment = Err("none")
    /\ opened = Err("none")
    /\ sum = Err("none")
    /\ RingIdle /\ RangeIdle /\ TxIdle /\ BuilderIdle /\ WalletIdle /\ StealthIdle /\ ScanIdle /\ BlockIdle /\ RequestIdle /\ ServiceIdle

NextPedersen == WithBlindingAct \/ CommitmentVerifyAct \/ CommitmentAddAct

SpecPedersen == InitPedersen /\ [][NextPedersen]_vars

\* C14: with_blinding(v, r).verify(v', r) is true exactly when v' = v.
CommitmentOpening ==
    opened.ok => (opened.value <=> commit_input.value.v_open = commit_input.value.v1)

\* A commitment with a non-zero blinding was opened with another value and
\* verify said no.
CommitmentOpeningRefused ==
    /\ opened.ok
    /\ commit_input.value.r1 # 0
    /\ commit_input.value.v_open # commit_input.value.v1
    /\ ~opened.value

\* C15: for v1 + v2 representable, add(commit(v1, r1), commit(v2, r2))
\* succeeds, equals commit(v1 + v2, r1 + r2) and opens to (v1 + v2, r1 + r2).
CommitmentHomomorphism ==
    (sum # Err("none")
        /\ commit_input.value.v1 + commit_input.value.v2 \in PedersenValues) =>
        /\ sum.returned.ok
        /\ sum.returned.value
              = WithBlinding(commit_input.value.v1 + commit_input.value.v2,
                             ScalarAdd(commit_input.value.r1, commit_input.value.r2))
        /\ CommitmentVerify(sum.returned.value,
                            commit_input.value.v1 + commit_input.value.v2,
                            ScalarAdd(commit_input.value.r1, commit_input.value.r2))

\* Two commitments to non-zero values under different non-zero blindings
\* were added.
CommitmentsAdded ==
    /\ sum # Err("none")
    /\ sum.returned.ok
    /\ commit_input.value.v1 > 0 /\ commit_input.value.v2 > 0
    /\ commit_input.value.v1 + commit_input.value.v2 \in PedersenValues
    /\ commit_input.value.r1 # 0 /\ commit_input.value.r2 # 0
    /\ commit_input.value.r1 # commit_input.value.r2

(***************************************************************************)
(* Stealth addresses on their own: a sender makes a one-time key for the   *)
(* recipient's address; the recipient derives the private key from R, and  *)
(* some address scans the pair.                                            *)
(***************************************************************************)
GenerateOneTimeKeyAct ==
    /\ stealth_input.ok
    /\ one_time = Err("none")
    /\ one_time' = Ok(GenerateOneTimeKey(stealth_input.value.addr, stealth_input.value.r))
    /\ UNCHANGED <<stealth_input, derived, recognised>>
    /\ UNCHANGED <<ringVars, rangeVars, txVars, builderVars, walletVars, pedersenVars, scanVars, blockVars, requestVars, serviceVars>>

DerivePrivateKeyAct ==
    /\ one_time.ok
    /\ derived = Err("none")
    /\ derived' = Ok(DerivePrivateKey(stealth_input.value.addr, one_time.value[1]))
    /\ UNCHANGED <<stealth_input, one_time, recognised>>
    /\ UNCHANGED <<ringVars, rangeVars, txVars, builderVars, walletVars, pedersenVars, scanVars, blockVars, requestVars, serviceVars>>

ScanOneTimeKeyAct ==
    /\ one_time.ok
    /\ recognised = Err("none")
    /\ recognised' = Ok(ScanOneTimeKey(stealth_input.value.scanner,
                                       one_time.value[1], one_time.value[2]))
    /\ UNCHANGED <<stealth_input, one_time, derived>>
    /\ UNCHANGED <<ringVars, rangeVars, txVars, builderVars, walletVars, pedersenVars, scanVars, blockVars, requestVars, serviceVars>>

InitStealth ==
    /\ stealth_input \in {Ok(i) : i \in [addr : Addresses, r : Scalars, scanner : Addresses]}
    /\ one_time = Err("none")
    /\ derived = Err("none")
    /\ recognised = Err("none")
    /\ RingIdle /\ RangeIdle /\ TxIdle /\ BuilderIdle /\ WalletIdle /\ PedersenIdle /\ ScanIdle /\ BlockIdle /\ RequestIdle /\ ServiceIdle

NextStealth == GenerateOneTimeKeyAct \/ DerivePrivateKeyAct \/ ScanOneTimeKeyAct

SpecStealth == InitStealth /\ [][NextStealth]_vars

\* The shared secret as the sender forms it: r * view_public.
SenderSharedSecret ==
    SharedSecretScalar(PointMul(stealth_input.value.addr.view_public, stealth_input.value.r))

\* C16: with (R, P) = generate_one_time_key(r), x = derive_private_key(R)
\* satisfies x * B = P, and x is the spend private scalar plus the shared
\* secret the sender used to form P.
StealthSpendIdentity ==
    derived.ok =>
        /\ PointMul(RISTRETTO_BASEPOINT_POINT, derived.value) = one_time.value[2]
        /\ derived.value
              = ScalarAdd(stealth_input.value.addr.spend_private, SenderSharedSecret)

\* A private key was derived for a one-time key whose shared secret is not
\* zero.
StealthKeyDerived ==
    /\ derived.ok
    /\ SenderSharedSecret # 0
    /\ stealth_input.value.addr.spend_private # 0

(***************************************************************************)
(* The output scanner on its own: one call of scan_transaction on a        *)
(* transaction whose outputs were made for various addresses.              *)
(***************************************************************************)
\* Most outputs of a scanned transaction.
MaxScanOutputs == 2

ScannedOutputs == {OutputNew(1, addr, 1, r).value : addr \in Addresses, r \in Scalars}

ScannedTransactions ==
    {TransactionNew(<<>>, outputs, 1, 1) : outputs \in SeqsUpTo(ScannedOutputs, MaxScanOutputs)}

ScanTransactionAct ==
    /\ scan_input.ok
    /\ scanned = Err("none")
    /\ scanned' = Ok(ScanTransaction(scan_input.value.tx, scan_input.value.address))
    /\ UNCHANGED <<scan_input, blockVars, requestVars, serviceVars>>
    /\ UNCHANGED <<ringVars, rangeVars, txVars, builderVars, walletVars>>
    /\ UNCHANGED <<pedersenVars, stealthVars>>

InitScan ==
    /\ scan_input \in {Ok(i) : i \in [tx : ScannedTransactions, address : Addresses]}
    /\ scanned = Err("none")
    /\ RingIdle /\ RangeIdle /\ TxIdle /\ BuilderIdle /\ WalletIdle
    /\ PedersenIdle /\ StealthIdle /\ BlockIdle /\ RequestIdle /\ ServiceIdle

NextScan == ScanTransactionAct

SpecScan == InitScan /\ [][NextScan]_vars

\* The pair (tx_pubkey, stealth_pubkey) of the output is what
\* generate_one_time_key of addr returns for some r.
DerivedFor(addr, o) ==
    \E r \in Scalars : <<o.tx_pubkey, o.stealth_pubkey>> = GenerateOneTimeKey(addr, r)

\* Positions (from 1) of the outputs of the scanned transaction derived for
\* the scanning address.
DerivedPositions ==
    {idx \in 1 .. Len(scan_input.value.tx.outputs) :
        DerivedFor(scan_input.value.address, scan_input.value.tx.outputs[idx])}

ScanReturnsDerived ==
    scanned.ok =>
        IF DerivedPositions = {} THEN ~scanned.value.some
        ELSE /\ scanned.value.some
             /\ DOMAIN scanned.value.value
                  = {OutputRef(TransactionHash(scan_input.value.tx), idx - 1) :
                        idx \in DerivedPositions}
             /\ \A idx \in DerivedPositions :
                  scanned.value.value[OutputRef(TransactionHash(scan_input.value.tx), idx - 1)]
                      = scan_input.value.tx.outputs[idx]

\* C17: scan_transaction returns exactly the outputs whose key pair was
\* derived for the address, each under the reference (tx.hash(), position),
\* and None when there is none; an output whose pair is no derivation for the
\* address is never returned; the call changes neither the transaction nor
\* the address nor anything else.
ScanExact ==
    /\ []ScanReturnsDerived
    /\ [][UNCHANGED <<scan_input, walletVars>>]_vars

\* A transaction whose first output is no derivation for the address and whose
\* second is one was scanned.
ScanMixed ==
    /\ scanned.ok
    /\ Len(scan_input.value.tx.outputs) = 2
    /\ DerivedPositions = {2}
    /\ scanned.value.some

(***************************************************************************)
(* Blocks (block.rs).  A hash is the symbolic digest of what was hashed:   *)
(* Sha256 over two hashes fed one after the other is the digest of the     *)
(* pair, and [0; 32] is a hash that no digest equals.                      *)
(***************************************************************************)
ZeroHash == <<"zero", [left |-> 0, right |-> 0]>>

\* Sha256::new(), update(chunk[0]), update(chunk[1]), finalize()
Sha256Pair(a, b) == <<"sha256", [left |-> a, right |-> b]>>

\* One round of "Build merkle tree": pad an odd level, hash the chunks of 2.
MerkleRound(hashes) ==
    LET padded == IF Len(hashes) % 2 # 0 THEN Append(hashes, hashes[Len(hashes)])
                  ELSE hashes
    IN  [k \in 1 .. (Len(padded) \div 2) |-> Sha256Pair(padded[2 * k - 1], padded[2 * k])]

RECURSIVE MerkleLoop(_)
MerkleLoop(hashes) ==
    IF Len(hashes) > 1 THEN MerkleLoop(MerkleRound(hashes)) ELSE hashes[1]

\* A round that carries the last hash of an odd level up as it is.
MerkleRoundCarry(hashes) ==
    LET pairs == [k \in 1 .. (Len(hashes) \div 2) |->
                    Sha256Pair(hashes[2 * k - 1], hashes[2 * k])]
    IN  IF Len(hashes) % 2 # 0 THEN Append(pairs, hashes[Len(hashes)]) ELSE pairs

RECURSIVE MerkleLoopCarry(_)
MerkleLoopCarry(hashes) ==
    IF Len(hashes) > 1 THEN MerkleLoopCarry(MerkleRoundCarry(hashes)) ELSE hashes[1]

CalculateMerkleRootCarry(transactions) ==
    IF Len(transactions) = 0 THEN ZeroHash
    ELSE MerkleLoopCarry([k \in 1 .. Len(transactions) |-> TransactionHash(transactions[k])])

\* Block::calculate_merkle_root
CalculateMerkleRoot(transactions) ==
    IF Len(transactions) = 0 THEN ZeroHash
    ELSE MerkleLoop([k \in 1 .. Len(transactions) |-> TransactionHash(transactions[k])])

\* Block::new; now is the reading of the system clock.
BlockNew(prev_hash, height, difficulty, transactions, now) ==
    [header |-> [version |-> 1, prev_hash |-> prev_hash,
                 merkle_root |-> CalculateMerkleRoot(transactions),
                 timestamp |-> now, height |-> height,
                 difficulty |-> difficulty, nonce |-> 0],
     transactions |-> transactions]

\* Most transactions of a block made by Block::new.
MaxMerkleTxs == 5

MerkleTransactions == {TransactionNew(<<>>, <<>>, fee, 1) : fee \in 0 .. 2}

BlockNewAct ==
    /\ block_input.ok
    /\ new_block = Err("none")
    /\ new_block' = Ok(BlockNew(ZeroHash, 1, 1, block_input.value.transactions, 1))
    /\ UNCHANGED <<block_input, received_block, block_verified, scanVars, requestVars, serviceVars>>
    /\ UNCHANGED <<ringVars, rangeVars, txVars, builderVars, walletVars>>
    /\ UNCHANGED <<pedersenVars, stealthVars>>

InitBlock ==
    /\ block_input \in {Ok([transactions |-> txs]) :
                           txs \in SeqsUpTo(MerkleTransactions, MaxMerkleTxs)}
    /\ new_block = Err("none")
    /\ received_block = Err("none")
    /\ block_verified = Err("none")
    /\ RingIdle /\ RangeIdle /\ TxIdle /\ BuilderIdle /\ WalletIdle
    /\ PedersenIdle /\ StealthIdle /\ ScanIdle /\ RequestIdle /\ ServiceIdle

NextBlock == BlockNewAct

SpecBlock == InitBlock /\ [][NextBlock]_vars

\* Smallest d with 2^d >= n.
RECURSIVE TreeDepth(_)
TreeDepth(n) == IF n <= 1 THEN 0 ELSE 1 + TreeDepth((n + 1) \div 2)

\* Root of the tree of the given depth over the leaves, from the top down: the
\* left half is the tree over the first 2^(depth-1) leaves; the right half is
\* the tree over the remaining ones, or the left half again when none remain.
RECURSIVE TreeRoot(_, _)
TreeRoot(leaves, depth) ==
    IF depth = 0 THEN leaves[1]
    ELSE LET half == 2 ^ (depth - 1)
             left == TreeRoot(SubSeq(leaves, 1, IF Len(leaves) < half THEN Len(leaves)
                                                 ELSE half), depth - 1)
             right == IF Len(leaves) > half
                      THEN TreeRoot(SubSeq(leaves, half + 1, Len(leaves)), depth - 1)
                      ELSE left
         IN  Sha256Pair(left, right)

\* C18: the merkle root Block::new stores is the all-zero hash for no
\* transaction, the transaction's hash for one, H(h1 || h2) for two, and in
\* general the root of the binary tree over the transaction hashes in which
\* the last hash of every level of odd length is paired with itself.
MerkleRootIsTreeRoot ==
    new_block.ok =>
        LET txs == block_input.value.transactions
            h == [k \in 1 .. Len(txs) |-> TransactionHash(txs[k])]
            root == new_block.value.header.merkle_root
        IN  /\ Len(txs) = 0 => root = ZeroHash
            /\ Len(txs) = 1 => root = h[1]
            /\ Len(txs) = 2 => root = Sha256Pair(h[1], h[2])
            /\ Len(txs) = 3 =>
                  root = Sha256Pair(Sha256Pair(h[1], h[2]), Sha256Pair(h[3], h[3]))
            /\ Len(txs) >= 1 => root = TreeRoot(h, TreeDepth(Len(txs)))
            /\ root = CalculateMerkleRoot(new_block.value.transactions)

\* A block of three different transactions was made.
MerkleOddLevel ==
    /\ new_block.ok
    /\ Len(block_input.value.transactions) = 3
    /\ \A i, j \in 1 .. 3 :
          i # j => block_input.value.transactions[i] # block_input.value.transactions[j]

(***************************************************************************)
(* The builder with its request on record: build_transaction is called     *)
(* once, and build_request keeps what it was called with and the order in  *)
(* which the selection loop visited available_outputs.                     *)
(***************************************************************************)
RequestOutputs ==
    {OutputNew(amount, LocalAddress, 1, 2).value : amount \in {1, 2, 1000}}

RequestAmounts == {0, 1, 2, 3, 500}

BuildRequestAct ==
    /\ built = Err("none")
    /\ \E amount \in RequestAmounts, fee \in 0 .. 1,
          order \in Orders(DOMAIN available_outputs),
          payment_blinding \in Scalars, ring_size \in 1 .. MaxRing :
         /\ build_request' = Ok([amount |-> amount, fee |-> fee,
                                 recipient |-> OtherAddress, order |-> order,
                                 ring_size |-> ring_size])
         /\ built' = [returned |->
                        BuildTransaction(LocalAddress, available_outputs, order,
                           OtherAddress, amount, fee,
                           [payment_blinding |-> payment_blinding, payment_r |-> 2,
                            change_blinding |-> 1, change_r |-> 2,
                            alphas |-> [k \in 1 .. MaxOwned |-> 1], now |-> 1])]
    /\ UNCHANGED <<available_outputs, ringVars, rangeVars, txVars, walletVars>>
    /\ UNCHANGED <<pedersenVars, stealthVars, scanVars, blockVars, serviceVars>>

InitRequest ==
    /\ available_outputs \in UNION {[refs -> RequestOutputs] : refs \in SUBSET OwnedRefs}
    /\ built = Err("none")
    /\ build_request = Err("none")
    /\ RingIdle /\ RangeIdle /\ TxIdle /\ WalletIdle
    /\ PedersenIdle /\ StealthIdle /\ ScanIdle /\ BlockIdle /\ ServiceIdle

NextRequest == BuildRequestAct

SpecRequest == InitRequest /\ [][NextRequest]_vars

\* The references of the built transaction's inputs, in order.
SelectedRefs ==
    [k \in 1 .. Len(built.returned.value.inputs) |-> built.returned.value.inputs[k].ring[1]]

RECURSIVE SumValues(_, _)
SumValues(outputs, refs) ==
    IF refs = <<>> THEN 0
    ELSE outputs[refs[1]].amount + SumValues(outputs, Tail(refs))

SelectedTotal == SumValues(available_outputs, SelectedRefs)

\* The output commits to the amount and its one-time key was made for addr.
IsOutputFor(o, amount, addr) ==
    /\ o.amount = amount
    /\ o.range_proof.value = amount
    /\ CommitmentVerify(o.commitment, amount, o.range_proof.blinding)
    /\ DerivedFor(addr, o)

\* C19: a built transaction carries the requested fee, a payment output for
\* amount to the recipient, and a change output to the local address for
\* (sum of selected input values - amount - fee) exactly when that surplus is
\* positive; one owned output worth 1000 with amount 500 and fee 1 gives one
\* input and two outputs with change 499.
BuiltOutputs ==
    (build_request.ok /\ built.returned.ok) =>
        LET req == build_request.value
            t == built.returned.value
            surplus == SelectedTotal - req.amount - req.fee
        IN  /\ t.fee = req.fee
            /\ Len(t.outputs) = (IF surplus > 0 THEN 2 ELSE 1)
            /\ IsOutputFor(t.outputs[1], req.amount, req.recipient)
            /\ surplus > 0 => IsOutputFor(t.outputs[2], surplus, LocalAddress)
            /\ (req.amount = 500 /\ req.fee = 1 /\ Cardinality(DOMAIN available_outputs) = 1
                  /\ SumAmounts(available_outputs) = 1000) =>
                  /\ Len(t.inputs) = 1
                  /\ Len(t.outputs) = 2
                  /\ t.outputs[2].amount = 499

\* The transaction of the example was built.
BuiltExample ==
    /\ build_request.ok /\ built.returned.ok
    /\ build_request.value.amount = 500 /\ build_request.value.fee = 1
    /\ Cardinality(DOMAIN available_outputs) = 1
    /\ SumAmounts(available_outputs) = 1000

\* C20: build_transaction fails with InsufficientFunds exactly when all
\* available outputs together are worth less than amount + fee; otherwise the
\* selected inputs are distinct available outputs worth at least amount + fee
\* together, and less than that without the last one selected.
BuildSelection ==
    build_request.ok =>
        LET needed == build_request.value.amount + build_request.value.fee
        IN  /\ (built.returned = Err("InsufficientFunds"))
                  <=> (SumAmounts(available_outputs) < needed)
            /\ built.returned.ok =>
                  /\ \A k \in 1 .. Len(SelectedRefs) :
                        SelectedRefs[k] \in DOMAIN available_outputs
                  /\ \A i, j \in 1 .. Len(SelectedRefs) :
                        i # j => SelectedRefs[i] # SelectedRefs[j]
                  /\ SelectedTotal >= needed
                  /\ Len(SelectedRefs) > 0 =>
                        SelectedTotal
                          - available_outputs[SelectedRefs[Len(SelectedRefs)]].amount < needed

\* Two outputs were available and the first one visited was enough.
BuildStoppedEarly ==
    /\ build_request.ok /\ built.returned.ok
    /\ Cardinality(DOMAIN available_outputs) = 2
    /\ Len(SelectedRefs) = 1
    /\ build_request.value.amount > 0

(***************************************************************************)
(* Signatures as an untrusted peer can send them: c and r of any length,   *)
(* and each r[i] a vector that may be empty.                               *)
(***************************************************************************)
UntrustedResponses == {<<>>} \cup {<<s>> : s \in Scalars}

UntrustedSignatures ==
    {[c |-> c, r |-> r, key_image |-> Compress(KeyOf(1))] :
        c \in UNION {[1 .. n -> Scalars] : n \in 0 .. MaxTamperRing},
        r \in UNION {[1 .. n -> UntrustedResponses] : n \in 0 .. MaxTamperRing}}

InitUntrusted ==
    /\ public_keys \in UNION {[1 .. n -> TamperKeys] : n \in 0 .. MaxTamperRing}
    /\ signature \in {Ok(sig) : sig \in UntrustedSignatures}
    /\ secret_key = 0 /\ real_index = 0
    /\ verified = "none" /\ earlier = Err("none")
    /\ RangeIdle /\ TxIdle /\ BuilderIdle /\ WalletIdle /\ PureIdle

NextUntrusted == VerifyReceivedAct

SpecUntrusted == InitUntrusted /\ [][NextUntrusted]_vars

\* C23: verify returns a typed result (true, false or the
\* SignatureVerification error) for every signature and ring a peer can
\* supply, also when c or r differ in length from the ring and when some
\* r[i] is empty; it never aborts.
VerifyTyped ==
    verified \in {"none", "true", "false", "SignatureVerification"}

\* C28: verify never returns true for an empty ring: a signature with empty
\* c and r checked against zero public keys is not accepted.
EmptyRingRefused ==
    (Len(public_keys) = 0 /\ verified # "none") => verified # "true"

(***************************************************************************)
(* Amounts at the edge of u64: build_transaction, and create_transaction   *)
(* in front of it, called with amounts and output values whose sums do not *)
(* fit, in a build with and in a build without overflow checks.            *)
(***************************************************************************)
EdgeOutputs ==
    {OutputNew(amount, LocalAddress, 1, 2).value : amount \in {1, U64Max}}

EdgeAmounts == {0, 1, U64Max}

EdgeRnd ==
    [payment_blinding |-> 1, payment_r |-> 2, change_blinding |-> 1, change_r |-> 2,
     alphas |-> [k \in 1 .. MaxOwned |-> 1], now |-> 1]

BuildAmountAct ==
    /\ built = Err("none")
    /\ \E amount \in EdgeAmounts, fee \in 0 .. 1,
          order \in Orders(DOMAIN available_outputs), overflow_checks \in BOOLEAN :
         /\ build_request' = Ok([call |-> "build_transaction", amount |-> amount,
                                 fee |-> fee, recipient |-> OtherAddress,
                                 order |-> order, overflow_checks |-> overflow_checks])
         /\ built' = [returned |->
                        BuildTransactionProfile(overflow_checks, LocalAddress,
                           available_outputs, order, OtherAddress, amount, fee, EdgeRnd)]
    /\ UNCHANGED <<available_outputs, ringVars, rangeVars, txVars, walletVars>>
    /\ UNCHANGED <<pedersenVars, stealthVars, scanVars, blockVars, serviceVars>>

\* create_transaction on a wallet whose unspent outputs are available_outputs;
\* balance is their sum, which fits in u64.
CreateAmountAct ==
    /\ built = Err("none")
    /\ SumAmounts(available_outputs) <= U64Max
    /\ \E amount \in EdgeAmounts, fee \in 0 .. 1,
          order \in Orders(DOMAIN available_outputs), overflow_checks \in BOOLEAN :
         /\ build_request' = Ok([call |-> "create_transaction", amount |-> amount,
                                 fee |-> fee, recipient |-> OtherAddress,
                                 order |-> order, overflow_checks |-> overflow_checks])
         /\ built' = [returned |->
                        CreateTransaction(overflow_checks,
                           [unspent_outputs |-> available_outputs,
                            spent_key_images |-> <<>>,
                            balance |-> SumAmounts(available_outputs)],
                           LocalAddress, order, OtherAddress, amount, fee, EdgeRnd)]
    /\ UNCHANGED <<available_outputs, ringVars, rangeVars, txVars, walletVars>>
    /\ UNCHANGED <<pedersenVars, stealthVars, scanVars, blockVars, serviceVars>>

InitAmount ==
    /\ available_outputs \in UNION {[refs -> EdgeOutputs] : refs \in SUBSET OwnedRefs}
    /\ built = Err("none")
    /\ build_request = Err("none")
    /\ RingIdle /\ RangeIdle /\ TxIdle /\ WalletIdle
    /\ PedersenIdle /\ StealthIdle /\ ScanIdle /\ BlockIdle /\ ServiceIdle

NextAmount == BuildAmountAct \/ CreateAmountAct

SpecAmount == InitAmount /\ [][NextAmount]_vars

\* C21: build_transaction, and create_transaction in front of it, fail with
\* InvalidAmount when amount is zero or when amount + fee, or the running sum
\* of the selected input values, does not fit in u64; they never work with a
\* wrapped-around total and never abort.
AmountChecked ==
    build_request.ok =>
        LET req == build_request.value
        IN  (\/ req.amount = 0
             \/ req.amount + req.fee > U64Max
             \/ SelectOverflows(available_outputs, req.order, 1,
                                req.amount + req.fee, 0))
                => built.returned = Err("InvalidAmount")

\* C22: every input of a transaction built with target ring size n has a ring
\* of exactly n pairwise distinct output references, the real output among
\* them, and a ring signature over the keys of those n members; the build
\* fails with TransactionBuildError when n - 1 decoys cannot be had.
BuiltRings ==
    (build_request.ok /\ built.returned.ok) =>
        LET n == build_request.value.ring_size
            inputs == built.returned.value.inputs
        IN  \A k \in 1 .. Len(inputs) :
              /\ Len(inputs[k].ring) = n
              /\ \A i, j \in 1 .. Len(inputs[k].ring) :
                    i # j => inputs[k].ring[i] # inputs[k].ring[j]
              /\ \E i \in 1 .. Len(inputs[k].ring) :
                    inputs[k].ring[i] \in DOMAIN available_outputs
              /\ Len(inputs[k].signature.c) = n
              /\ Len(inputs[k].signature.r) = n

(***************************************************************************)
(* Blocks received from a peer (block.rs): a block made by Block::new      *)
(* comes back with its header kept and its body possibly changed, and      *)
(* Block::verify is called on it.                                          *)
(***************************************************************************)
RECURSIVE VerifyTransactions(_, _)
VerifyTransactions(transactions, i) ==
    IF i > Len(transactions) THEN "true"
    ELSE IF TransactionVerify(transactions[i]) # "true"
         THEN TransactionVerify(transactions[i])
         ELSE VerifyTransactions(transactions, i + 1)

\* Block::verify: "true", "false" or an error kind.
BlockVerify(block) ==
    IF block.header.merkle_root # CalculateMerkleRoot(block.transactions) THEN "false"
    ELSE VerifyTransactions(block.transactions, 1)

\* The bodies a peer may send in place of transactions: the same list, the
\* list with a copy of its last transaction appended, with its last
\* transaction removed, with another transaction appended, or with one
\* transaction replaced.
ChangedBodies(transactions) ==
    LET n == Len(transactions) IN
    {transactions}
      \cup {Append(transactions, transactions[n]) : k \in (IF n > 0 THEN {1} ELSE {})}
      \cup {SubSeq(transactions, 1, n - 1) : k \in (IF n > 0 THEN {1} ELSE {})}
      \cup {Append(transactions, t) : t \in MerkleTransactions}
      \cup {[transactions EXCEPT ![i] = t] : i \in 1 .. n, t \in MerkleTransactions}

ReceiveBlockAct ==
    /\ new_block.ok
    /\ received_block = Err("none")
    /\ \E body \in ChangedBodies(new_block.value.transactions) :
         received_block' = Ok([header |-> new_block.value.header, transactions |-> body])
    /\ UNCHANGED <<block_input, new_block, block_verified, scanVars, requestVars, serviceVars>>
    /\ UNCHANGED <<ringVars, rangeVars, txVars, builderVars, walletVars>>
    /\ UNCHANGED <<pedersenVars, stealthVars>>

BlockVerifyAct ==
    /\ received_block.ok
    /\ block_verified = Err("none")
    /\ block_verified' = [returned |-> BlockVerify(received_block.value)]
    /\ UNCHANGED <<block_input, new_block, received_block, scanVars, requestVars, serviceVars>>
    /\ UNCHANGED <<ringVars, rangeVars, txVars, builderVars, walletVars>>
    /\ UNCHANGED <<pedersenVars, stealthVars>>

NextBody == BlockNewAct \/ ReceiveBlockAct \/ BlockVerifyAct

SpecBody == InitBlock /\ [][NextBody]_vars

\* The sequence of transaction hashes of a body.
HashSequence(transactions) ==
    [k \in 1 .. Len(transactions) |-> TransactionHash(transactions[k])]

\* C29: the Merkle root identifies the transaction list: a body whose
\* sequence of transaction hashes differs from that of the block the header
\* was made for has a different calculate_merkle_root, and Block::verify
\* does not accept it under that header.
MerkleRootIdentifiesBody ==
    (received_block.ok /\ block_verified # Err("none")
       /\ HashSequence(received_block.value.transactions)
            # HashSequence(new_block.value.transactions))
      => /\ CalculateMerkleRoot(received_block.value.transactions)
              # new_block.value.header.merkle_root
         /\ block_verified # [returned |-> "true"]

(***************************************************************************)
(* The lock around WalletState (wallet/mod.rs).  Tasks call get_balance,   *)
(* create_transaction and process_block on one Wallet; each call takes the *)
(* side of the RwLock the source takes and holds it until it returns.      *)
(* process_block takes "&mut self": it starts only while no other call on  *)
(* the wallet is under way, and no call starts while it runs.              *)
(***************************************************************************)
\* Number of tasks sharing the wallet.
MaxTasks == 3

Tasks == 1 .. MaxTasks

WalletMethods == {"get_balance", "create_transaction", "process_block"}

\* The side of state the method asks for: self.state.read() or .write().
LockSide(method) ==
    CASE method = "get_balance" -> "read"
      [] method = "create_transaction" -> "read"
      [] method = "process_block" -> "write"

NoCall == [method |-> "none", at |-> "idle"]

CallAct ==
    \E t \in Tasks, method \in WalletMethods :
       /\ calls[t] = NoCall
       /\ \A u \in Tasks : calls[u].method # "process_block"
       /\ method = "process_block" => \A u \in Tasks : calls[u] = NoCall
       /\ calls' = [calls EXCEPT ![t] = [method |-> method, at |-> "waiting"]]
       /\ UNCHANGED <<state_lock, coreVars, metricsVars, keystoreVars, dandelionVars, swapVars>>

AcquireAct ==
    \E t \in Tasks :
       /\ calls[t].at = "waiting"
       /\ IF LockSide(calls[t].method) = "read"
          THEN /\ state_lock.writer = {}
               /\ state_lock' = [state_lock EXCEPT !.readers = @ \cup {t}]
          ELSE /\ state_lock.writer = {} /\ state_lock.readers = {}
               /\ state_lock' = [state_lock EXCEPT !.writer = {t}]
       /\ calls' = [calls EXCEPT ![t].at = "holding"]
       /\ UNCHANGED <<coreVars, metricsVars, keystoreVars, dandelionVars, swapVars>>

\* The call returns and its guard is dropped.
ReturnAct ==
    \E t \in Tasks :
       /\ calls[t].at = "holding"
       /\ state_lock' = [readers |-> state_lock.readers \ {t},
                         writer |-> state_lock.writer \ {t}]
       /\ calls' = [calls EXCEPT ![t] = NoCall]
       /\ UNCHANGED <<coreVars, metricsVars, keystoreVars, dandelionVars, swapVars>>

InitLock ==
    /\ state_lock = [readers |-> {}, writer |-> {}]
    /\ calls = [t \in Tasks |-> NoCall]
    /\ CoreIdle /\ MetricsIdle /\ KeystoreIdle /\ DandelionIdle /\ SwapIdle

NextLock == CallAct \/ AcquireAct \/ ReturnAct

SpecLock == InitLock /\ [][NextLock]_vars

\* The task is inside the method, past taking the lock.
Inside(t, method) == calls[t].method = method /\ calls[t].at = "holding"

\* C24: process_block and create_transaction hold the write side of the
\* state lock for their whole duration, so that neither overlaps another of
\* them or a reader; get_balance holds only the read side.
WriterDiscipline ==
    \A t \in Tasks :
       /\ (Inside(t, "process_block") \/ Inside(t, "create_transaction")) =>
             /\ t \in state_lock.writer
             /\ \A u \in Tasks \ {t} : calls[u].at # "holding"
       /\ Inside(t, "get_balance") =>
             /\ t \in state_lock.readers
             /\ t \notin state_lock.writer

(***************************************************************************)
(* Metrics aggregator (explorer/metrics.rs).  Timestamps are u64 seconds;  *)
(* "w[1] - w[0]" on a timestamp that went back wraps in a build without    *)
(* overflow checks and aborts in a build with them.                        *)
(***************************************************************************)
\* max_history: most timestamps retained (100 in the source, scaled down).
MaxHistory == 3

\* 2u64.pow(32), with the exponent scaled down.
HashSpaceBits == 5

HashSpace == 2 ^ HashSpaceBits

\* Largest block timestamp, largest difficulty, most blocks processed.
MaxTimestamp == 3

MaxDifficulty == 2

MaxMetricBlocks == 4

MetricsAggregatorNew ==
    [block_count |-> 0, recent_blocks |-> <<>>, current_difficulty |-> 0,
     mempool_size |-> 0, max_history |-> MaxHistory]

MetricsProcessBlock(self, block) ==
    LET pushed == Append(self.recent_blocks, block.header.timestamp)
    IN  [self EXCEPT !.block_count = @ + 1,
                     !.current_difficulty = block.header.difficulty,
                     !.recent_blocks = IF Len(pushed) > self.max_history
                                       THEN Tail(pushed) ELSE pushed]

RECURSIVE SumSeq(_)
SumSeq(s) == IF s = <<>> THEN 0 ELSE s[1] + SumSeq(Tail(s))

\* windows(2).map(|w| w[1] - w[0])
WindowDeltas(recent_blocks) ==
    [k \in 1 .. Len(recent_blocks) - 1 |-> recent_blocks[k + 1] - recent_blocks[k]]

\* get_metrics; Err("panic") stands for the abort.
GetMetrics(self, overflow_checks) ==
    LET deltas == WindowDeltas(self.recent_blocks)
        wrapped == [k \in DOMAIN deltas |-> deltas[k] % U64Limit]
        total_time == SumSeq(wrapped) % U64Limit
        avg_block_time == IF Len(self.recent_blocks) >= 2
                          THEN total_time \div (Len(self.recent_blocks) - 1)
                          ELSE 0
        estimated_hashrate == IF avg_block_time # 0
                              THEN self.current_difficulty * (HashSpace \div avg_block_time)
                              ELSE 0
    IN  IF /\ overflow_checks
           /\ \/ \E k \in DOMAIN deltas : deltas[k] < 0
              \/ SumSeq(wrapped) > U64Max
        THEN Err("panic")
        ELSE Ok([block_count |-> self.block_count,
                 avg_block_time |-> avg_block_time,
                 estimated_hashrate |-> estimated_hashrate,
                 current_difficulty |-> self.current_difficulty,
                 mempool_size |-> self.mempool_size])

MetricsProcessBlockAct ==
    /\ Len(blocks_given) < MaxMetricBlocks
    /\ \E timestamp \in 0 .. MaxTimestamp, difficulty \in 0 .. MaxDifficulty :
         LET block == BlockNew(ZeroHash, Len(blocks_given), difficulty, <<>>, timestamp)
         IN  /\ aggregator' = MetricsProcessBlock(aggregator, block)
             /\ blocks_given' = Append(blocks_given, block.header)
    /\ metrics_out' = Err("none")
    /\ UNCHANGED <<coreVars, lockVars, keystoreVars, dandelionVars, swapVars>>

GetMetricsAct ==
    /\ metrics_out = Err("none")
    /\ \E overflow_checks \in BOOLEAN :
         metrics_out' = [returned |-> GetMetrics(aggregator, overflow_checks)]
    /\ UNCHANGED <<aggregator, blocks_given>>
    /\ UNCHANGED <<coreVars, lockVars, keystoreVars, dandelionVars, swapVars>>

InitMetrics ==
    /\ aggregator = MetricsAggregatorNew
    /\ metrics_out = Err("none")
    /\ blocks_given = <<>>
    /\ CoreIdle /\ LockIdle /\ KeystoreIdle /\ DandelionIdle /\ SwapIdle

NextMetrics == MetricsProcessBlockAct \/ GetMetricsAct

SpecMetrics == InitMetrics /\ [][NextMetrics]_vars

\* The timestamps of the most recent blocks given, at most MaxHistory of them.
RetainedWindow ==
    LET n == Len(blocks_given)
        first == IF n > MaxHistory THEN n - MaxHistory + 1 ELSE 1
    IN  [k \in 1 .. (n + 1 - first) |-> blocks_given[first + k - 1].timestamp]

\* C25: get_metrics returns block_count = number of blocks processed, an
\* average block time equal to the sum of the consecutive timestamp deltas of
\* the retained window divided by (window length - 1), and an estimated
\* hashrate of difficulty * 2^32 / average in integer arithmetic; both derived
\* figures are 0 when the window has fewer than two timestamps or the average
\* is zero.
MetricsFigures ==
    metrics_out # Err("none") =>
        LET window == RetainedWindow
            difficulty == IF blocks_given = <<>> THEN 0
                          ELSE blocks_given[Len(blocks_given)].difficulty
            average == IF Len(window) >= 2
                       THEN SumSeq(WindowDeltas(window)) \div (Len(window) - 1)
                       ELSE 0
            hashrate == IF average # 0 THEN (difficulty * HashSpace) \div average ELSE 0
        IN  /\ metrics_out.returned.ok
            /\ metrics_out.returned.value.block_count = Len(blocks_given)
            /\ metrics_out.returned.value.avg_block_time = average
            /\ metrics_out.returned.value.estimated_hashrate = hashrate

\* The same for block timestamps that never go back.
MetricsFiguresMonotone ==
    (\A k \in 1 .. Len(blocks_given) - 1 :
        blocks_given[k].timestamp <= blocks_given[k + 1].timestamp)
      => MetricsFigures

(***************************************************************************)
(* Keystore encryption (wallet/keystore.rs).  AES-256-GCM is an ideal      *)
(* AEAD: every byte of a ciphertext (tag included) is determined by key,   *)
(* nonce, plaintext and position and by nothing else, and decryption       *)
(* succeeds only on a ciphertext made with the same key and nonce.         *)
(***************************************************************************)
\* Bytes of a 96-bit nonce and of a GCM tag.
NonceLen == 12

TagLen == 16

\* Largest byte value and largest encryption key of the model.
MaxByte == 2

MaxEncryptionKey == 3

ByteValues == 0 .. MaxByte

\* &Sha256::digest(data)[..12]
DigestPrefix(data) == [k \in 1 .. NonceLen |-> [sha256_of |-> data, byte |-> k]]

\* cipher.encrypt(nonce, plaintext): ciphertext followed by the tag.
AeadEncrypt(key, nonce, plaintext) ==
    [k \in 1 .. Len(plaintext) + TagLen |->
        [key |-> key, nonce |-> nonce, plaintext |-> plaintext, byte |-> k]]

\* cipher.decrypt(nonce, ciphertext)
AeadDecrypt(key, nonce, ciphertext) ==
    IF Len(ciphertext) < TagLen THEN Err("aead::Error")
    ELSE LET fits == {plaintext \in [1 .. Len(ciphertext) - TagLen -> ByteValues] :
                         AeadEncrypt(key, nonce, plaintext) = ciphertext}
         IN  IF fits = {} THEN Err("aead::Error")
             ELSE Ok(CHOOSE plaintext \in fits : TRUE)

\* KeyStore::encrypt
KeyStoreEncrypt(self, data) ==
    Ok(AeadEncrypt(self.encryption_key, DigestPrefix(data), data))

\* KeyStore::decrypt; slicing fewer than 12 bytes aborts.
KeyStoreDecrypt(self, encrypted_bytes) ==
    IF Len(encrypted_bytes) < NonceLen THEN Err("panic")
    ELSE LET nonce == SubSeq(encrypted_bytes, 1, NonceLen)
             opened_bytes == AeadDecrypt(self.encryption_key, nonce,
                                SubSeq(encrypted_bytes, NonceLen + 1, Len(encrypted_bytes)))
         IN  IF opened_bytes.ok THEN opened_bytes ELSE Err("KeyStoreError")

\* Byte strings handed to encrypt: short ones, and ones of 12 and 13 bytes.
KeystoreData ==
    SeqsUpTo(ByteValues, 2)
      \cup {[k \in 1 .. n |-> b] : n \in NonceLen .. NonceLen + 1, b \in ByteValues}

KeyStoreEncryptAct ==
    /\ keystore_input.ok
    /\ encrypted = Err("none")
    /\ encrypted' = [returned |->
                       KeyStoreEncrypt(keystore_input.value.keystore,
                                       keystore_input.value.data)]
    /\ UNCHANGED <<keystore_input, decrypted>>
    /\ UNCHANGED <<coreVars, lockVars, metricsVars, dandelionVars, swapVars>>

KeyStoreDecryptAct ==
    /\ encrypted # Err("none") /\ encrypted.returned.ok
    /\ decrypted = Err("none")
    /\ decrypted' = [returned |->
                       KeyStoreDecrypt(keystore_input.value.keystore,
                                       encrypted.returned.value)]
    /\ UNCHANGED <<keystore_input, encrypted>>
    /\ UNCHANGED <<coreVars, lockVars, metricsVars, dandelionVars, swapVars>>

InitKeystore ==
    /\ keystore_input \in {Ok([keystore |-> [encryption_key |-> key], data |-> data]) :
                              key \in 1 .. MaxEncryptionKey, data \in KeystoreData}
    /\ encrypted = Err("none")
    /\ decrypted = Err("none")
    /\ CoreIdle /\ LockIdle /\ MetricsIdle /\ DandelionIdle /\ SwapIdle

NextKeystore == KeyStoreEncryptAct \/ KeyStoreDecryptAct

SpecKeystore == InitKeystore /\ [][NextKeystore]_vars

\* C26: keystore encryption round-trips: for every byte string d and every
\* keystore, decrypt(encrypt(d)) succeeds and returns d.
KeystoreRoundTrip ==
    decrypted # Err("none") => decrypted = [returned |-> Ok(keystore_input.value.data)]

(***************************************************************************)
(* Cross-chain swap (swap/atomic.rs).  ExternalChainSwap is not defined in *)
(* the repository: what its is_expired answers is left open.  Time is in   *)
(* units of the timeout's scale.                                           *)
(***************************************************************************)
\* The time lock's distance from creation (24 hours in the source) and the
\* latest time of the model.
SwapTimeout == 2

MaxSwapTime == 4

\* Largest amount swapped.
MaxSwapAmount == 2

\* The preimage AtomicSwap::new drew, and another one.
SwapPreimages == 1 .. 2

\* AtomicSwap::new
AtomicSwapNew(amount, recipient, refund, timeout, preimage, now) ==
    [hash_lock |-> HashOf(preimage), time_lock |-> now + timeout, amount |-> amount,
     recipient_address |-> recipient, refund_address |-> refund]

\* CrossChainSwap::initiate
Initiate(amount, preimage, now) ==
    [idia_swap |-> AtomicSwapNew(amount, 0, 0, SwapTimeout, preimage, now),
     state |-> "Initialized"]

\* AtomicSwap::verify_secret; verify_signature is a placeholder returning true.
VerifySecret(self, secret) == HashOf(secret.preimage) = self.hash_lock

\* AtomicSwap::is_expired
IsExpired(self, now) == now > self.time_lock

LockIdiaAct ==
    /\ swap' = [swap EXCEPT !.state = "IdiaLocked"]
    /\ swap_result' = [call |-> "lock_idia", returned |-> Ok("unit")]
    /\ UNCHANGED <<swap_now, coreVars, lockVars, metricsVars, keystoreVars, dandelionVars>>

LockExternalAct ==
    /\ swap' = [swap EXCEPT !.state = "ExternalLocked"]
    /\ swap_result' = [call |-> "lock_external", returned |-> Ok("unit")]
    /\ UNCHANGED <<swap_now, coreVars, lockVars, metricsVars, keystoreVars, dandelionVars>>

CompleteAct ==
    /\ \E preimage \in SwapPreimages, external \in {"true", "false", "error"} :
         LET secret == [preimage |-> preimage, signature |-> 0]
             returned ==
                 IF ~VerifySecret(swap.idia_swap, secret) THEN Err("InvalidSecret")
                 ELSE IF IsExpired(swap.idia_swap, swap_now) THEN Err("SwapExpired")
                 ELSE IF external = "error" THEN Err("external")
                 ELSE IF external = "true" THEN Err("SwapExpired")
                 ELSE Ok("unit")
         IN  /\ swap' = IF returned.ok THEN [swap EXCEPT !.state = "Completed"] ELSE swap
             /\ swap_result' = [call |-> "complete", returned |-> returned]
    /\ UNCHANGED <<swap_now, coreVars, lockVars, metricsVars, keystoreVars, dandelionVars>>

RefundAct ==
    /\ LET returned == IF ~IsExpired(swap.idia_swap, swap_now)
                       THEN Err("SwapNotExpired") ELSE Ok("unit")
       IN  /\ swap' = IF returned.ok THEN [swap EXCEPT !.state = "Refunded"] ELSE swap
           /\ swap_result' = [call |-> "refund", returned |-> returned]
    /\ UNCHANGED <<swap_now, coreVars, lockVars, metricsVars, keystoreVars, dandelionVars>>

\* Time passes; it only moves forward.
SwapTickAct ==
    /\ swap_now < MaxSwapTime
    /\ swap_now' = swap_now + 1
    /\ UNCHANGED <<swap, swap_result, coreVars, lockVars, metricsVars, keystoreVars, dandelionVars>>

InitSwap ==
    /\ swap_now = 0
    /\ swap \in {Initiate(amount, 1, swap_now) : amount \in 1 .. MaxSwapAmount}
    /\ swap_result = Err("none")
    /\ CoreIdle /\ LockIdle /\ MetricsIdle /\ KeystoreIdle /\ DandelionIdle

NextSwap == LockIdiaAct \/ LockExternalAct \/ CompleteAct \/ RefundAct \/ SwapTickAct

SpecSwap == InitSwap /\ [][NextSwap]_vars

\* C30: Completed and Refunded are terminal: under any sequence of lock_idia,
\* lock_external, complete and refund calls with time only moving forward, a
\* swap that has reached Completed or Refunded keeps that state.
SwapTerminal ==
    [][swap.state \in {"Completed", "Refunded"} => swap'.state = swap.state]_vars

(***************************************************************************)
(* Dandelion++ handler (network/dandelion.rs).  The phase drawn from the   *)
(* random generator and the stem peer chosen are inputs of the call.       *)
(***************************************************************************)
\* Peers known to the node (10 in the tests), config.stem_timeout and the
\* latest time of the model.
PeerCount == 10

StemTimeout == 1

MaxDandelionTime == 3

Peers == [k \in 1 .. PeerCount |-> k]

\* Two transactions to relay.
DandelionTransactions == {TransactionNew(<<>>, <<>>, fee, 1) : fee \in {1, 2}}

\* DandelionHandler::new
DandelionHandlerNew(config) == [stem_txs |-> <<>>, stem_graph |-> <<>>, config |-> config]

\* update_stem_graph: chosen is what choose_multiple drew.
StemGraphSize(peers) == Len(peers) \div 10

UpdateStemGraph(self, peers, chosen) == [self EXCEPT !.stem_graph = chosen]

\* handle_transaction: the handler afterwards and the Option returned.
HandleTransaction(self, transaction, peers, phase, next_peer, now) ==
    LET tx_hash == TransactionHash(transaction) IN
    IF tx_hash \in DOMAIN self.stem_txs
    THEN [self |-> self, returned |-> [some |-> FALSE]]
    ELSE IF phase = "Stem" /\ self.stem_graph # <<>>
         THEN [self |-> [self EXCEPT !.stem_txs =
                            MapInsert(@, tx_hash,
                               [tx |-> transaction, phase |-> "Stem", received_at |-> now,
                                next_peer |-> [some |-> TRUE, value |-> next_peer]])],
               returned |-> [some |-> TRUE, value |-> <<transaction, <<next_peer>>>>]]
         ELSE [self |-> self, returned |-> [some |-> TRUE, value |-> <<transaction, peers>>]]

\* process_timeouts whose retain keeps every transaction: the timed-out ones
\* are returned and stay in the stem set.
ProcessTimeoutsKeep(self, peers, now) ==
    LET timed_out == {h \in DOMAIN self.stem_txs :
                         now - self.stem_txs[h].received_at > self.config.stem_timeout}
    IN  [self |-> self,
         returned |-> {<<self.stem_txs[h].tx, peers>> : h \in timed_out}]

\* process_timeouts: the handler afterwards and the pairs returned (their
\* order is that of the HashMap).
ProcessTimeouts(self, peers, now) ==
    LET timed_out == {h \in DOMAIN self.stem_txs :
                         now - self.stem_txs[h].received_at > self.config.stem_timeout}
    IN  [self |-> [self EXCEPT !.stem_txs = [h \in DOMAIN @ \ timed_out |-> @[h]]],
         returned |-> {<<self.stem_txs[h].tx, peers>> : h \in timed_out}]

Range(s) == {s[k] : k \in DOMAIN s}

\* Peers are interchangeable: the first and the last stand for what the
\* random generator may draw.
DrawnPeers == {Peers[1], Peers[PeerCount]}

UpdateStemGraphAct ==
    /\ \E chosen \in {c \in [1 .. StemGraphSize(Peers) -> DrawnPeers] :
                         \A i, j \in DOMAIN c : i # j => c[i] # c[j]} :
         handler' = UpdateStemGraph(handler, Peers, chosen)
    /\ UNCHANGED <<dandelion_now, relayed, awaiting>>
    /\ UNCHANGED <<coreVars, lockVars, metricsVars, keystoreVars, swapVars>>

\* awaiting takes up a new transaction handled with a non-empty stem graph:
\* when it was handled and whether the handler kept it in the stem phase.
\* Of the handlings of one transaction that went to the fluff phase only the
\* earliest is kept.
HandleTransactionAct ==
    /\ \E transaction \in DandelionTransactions, phase \in {"Stem", "Fluff"},
          next_peer \in (IF handler.stem_graph = <<>> THEN {0}
                         ELSE Range(handler.stem_graph)) :
         LET result == HandleTransaction(handler, transaction, Peers, phase, next_peer,
                                         dandelion_now)
             is_new == TransactionHash(transaction) \notin DOMAIN handler.stem_txs
             kept == TransactionHash(transaction) \in DOMAIN result.self.stem_txs
         IN  /\ handler' = result.self
             /\ relayed' = [call |-> "handle_transaction", returned |-> result.returned]
             /\ awaiting' =
                  IF is_new /\ handler.stem_graph # <<>>
                       /\ (kept \/ ~\E e \in awaiting : e.tx = transaction /\ ~e.stem)
                  THEN awaiting \cup {[tx |-> transaction, at |-> dandelion_now, stem |-> kept]}
                  ELSE awaiting
    /\ UNCHANGED dandelion_now
    /\ UNCHANGED <<coreVars, lockVars, metricsVars, keystoreVars, swapVars>>

ProcessTimeoutsAct ==
    /\ LET result == ProcessTimeouts(handler, Peers, dandelion_now)
       IN  /\ handler' = result.self
           /\ relayed' = [call |-> "process_timeouts", returned |-> result.returned]
           /\ awaiting' = {e \in awaiting : <<e.tx, Peers>> \notin result.returned}
    /\ UNCHANGED dandelion_now
    /\ UNCHANGED <<coreVars, lockVars, metricsVars, keystoreVars, swapVars>>

\* Time passes.
DandelionTickAct ==
    /\ dandelion_now < MaxDandelionTime
    /\ dandelion_now' = dandelion_now + 1
    /\ relayed' = [call |-> "none"]
    /\ UNCHANGED <<handler, awaiting>>
    /\ UNCHANGED <<coreVars, lockVars, metricsVars, keystoreVars, swapVars>>

InitDandelion ==
    /\ handler = DandelionHandlerNew([stem_timeout |-> StemTimeout])
    /\ dandelion_now = 0
    /\ relayed = [call |-> "none"]
    /\ awaiting = {}
    /\ CoreIdle /\ LockIdle /\ MetricsIdle /\ KeystoreIdle /\ SwapIdle

NextDandelion ==
    UpdateStemGraphAct \/ HandleTransactionAct \/ ProcessTimeoutsAct \/ DandelionTickAct

SpecDandelion == InitDandelion /\ [][NextDandelion]_vars

\* After a process_timeouts call: none of the given handlings is older than
\* stem_timeout and still awaiting its return, and what the call returned is
\* paired with the full peer list and gone from the stem set.
TimedOutReturned(handlings) ==
    relayed.call = "process_timeouts" =>
        /\ \A e \in handlings : ~(dandelion_now - e.at > StemTimeout)
        /\ \A pair \in relayed.returned :
              /\ pair[2] = Peers
              /\ TransactionHash(pair[1]) \notin DOMAIN handler.stem_txs

====
